---- MODULE Spec2Model ----
(***************************************************************************)
(* Model of the transaction-batch orchestrator CPKService                  *)
(* (src/unnamed/part_000, lines 328-782): every workflow queries the       *)
(* chain, builds an ordered list of calls, hands it once to                *)
(* cpk.execTransactions and waits for the transaction.                     *)
(*                                                                         *)
(* Every `await` of the source is one step of an invocation: an action     *)
(* models the resolution of one awaited promise together with the          *)
(* synchronous code that follows it up to the next await.                  *)
(***************************************************************************)
EXTENDS Integers, Sequences, FiniteSets, TLC

(***************************************************************************)
(* Bounds of the model.                                                    *)
(***************************************************************************)
MaxAmount == 2
UintBits == 2
MaxSalt == 1
MaxOutcomes == 2
MaxCalls == 2

MaxUint == 2 ^ UintBits - 1
Amounts == 0 .. MaxAmount
Salts == 0 .. MaxSalt
OutcomeCounts == 2 .. MaxOutcomes

\* The invocations that can be in flight at the same time.
Invs == {1, 2}

\* The invocation that runs when workflows are invoked one after the other.
Sequential == {1}

(***************************************************************************)
(* Addresses.                                                              *)
(***************************************************************************)
User == "user"
CpkAddress == "cpk"
MarketMakerAddress == "marketMaker"
FactoryAddress == "marketMakerFactory"
ConditionalTokensAddress == "conditionalTokens"
RealitioAddress == "realitio"
OracleAddress == "oracle"
ArbitratorAddress == "arbitrator"
Dai == "dai"
Weth == "weth"
pseudoEthAddress == "pseudoEth"

Tokens == {Dai, Weth}

(***************************************************************************)
(* JavaScript values whose truthiness the code tests.                      *)
(***************************************************************************)
Null == [type |-> "null"]
Str(s) == [type |-> "string", value |-> s]
BN(n) == [type |-> "BigNumber", value |-> n]
DateValue == [type |-> "Date"]

\* ToBoolean: null and the empty string are falsy, every object is truthy
\* (a BigNumber is an object, whatever its value).
Truthy(v) ==
    CASE v.type = "null" -> FALSE
      [] v.type = "string" -> v.value # ""
      [] OTHER -> TRUE

(***************************************************************************)
(* Encoders of the contract services: opaque and injective.                *)
(***************************************************************************)
encodeTransferFrom(from, to, amount) == <<"transferFrom", from, to, amount>>
encodeTransfer(to, amount) == <<"transfer", to, amount>>
encodeApproveUnlimited(spender) == <<"approve", spender, MaxUint>>
encodeBuy(amount, outcomeIndex, minOut) == <<"buy", amount, outcomeIndex, minOut>>
encodeSell(amount, outcomeIndex, maxIn) == <<"sell", amount, outcomeIndex, maxIn>>
encodeAddFunding(amount) == <<"addFunding", amount>>
encodeRemoveFunding(shares) == <<"removeFunding", shares>>
encodeMergePositions(collateral, conditionId, outcomesCount, amount) ==
    <<"mergePositions", collateral, conditionId, outcomesCount, amount>>
encodeRedeemPositions(collateral, conditionId, numOutcomes) ==
    <<"redeemPositions", collateral, conditionId, numOutcomes>>
encodeResolveCondition(questionId, templateId, raw, numOutcomes) ==
    <<"resolveCondition", questionId, templateId, raw, numOutcomes>>
encodeSetApprovalForAll(operator, approved) == <<"setApprovalForAll", operator, approved>>
encodePrepareCondition(questionId, oracle, outcomeSlotCount) ==
    <<"prepareCondition", questionId, oracle, outcomeSlotCount>>
encodeAskQuestion(question, arbitrator, openingDate) ==
    <<"askQuestion", question, arbitrator, openingDate>>
encodeCreateMarketMaker(salt, ct, collateral, conditionId, spread, funding, hint) ==
    <<"createMarketMaker", salt, ct, collateral, conditionId, spread, funding, hint>>

\* hasEnoughAllowance(owner, spender, amount) of the ERC-20 service.
HasEnoughAllowance(allowed, amount) == allowed >= amount

\* conditionalTokens.getConditionId: keccak256 of (oracle, questionId,
\* outcomeSlotCount), modelled as an injective constructor.
getConditionId(questionId, oracleAddress, outcomeSlotCount) ==
    <<"conditionId", oracleAddress, questionId, outcomeSlotCount>>

\* The default outcomeSlotCount: the market of the model is binary.
DefaultOutcomeSlotCount == 2

\* The condition of the market of the model.
MarketConditionId == getConditionId("loadedQuestion", OracleAddress, DefaultOutcomeSlotCount)

\* The conditions createMarket can ask the chain about: those of the
\* question it can be given.  (A question it asks itself is new.)
LoadedConditionIds ==
    {getConditionId("loadedQuestion", OracleAddress, n) : n \in OutcomeCounts}

(***************************************************************************)
(* The proxy account and its implementation.                               *)
(***************************************************************************)
\* The text of an address is a sequence of characters; the chain holds an
\* address without letter case, the text of it in lower case.
LowerCaseChar(c) == CASE c = "A" -> "a" [] c = "B" -> "b" [] OTHER -> c

\* String.prototype.toLowerCase
ToLowerCase(s) == [k \in DOMAIN s |-> LowerCaseChar(s[k])]

\* The implementation the proxy should run, as the configuration writes it.
targetGnosisSafeImplementation == <<"A", "b">>

\* An implementation the proxy was deployed with before the target existed.
StaleImplementation == <<"b", "a">>

Implementations == {ToLowerCase(targetGnosisSafeImplementation), StaleImplementation}

\* The texts a provider can return for an address of the chain.
Renderings(address) ==
    {s \in [DOMAIN address -> {"a", "A", "b", "B"}] : ToLowerCase(s) = address}

NotDeployed == [deployed |-> FALSE]
Deployed(implementation) == [deployed |-> TRUE, masterCopy |-> implementation]

\* proxy.interface.functions.changeMasterCopy.encode([implementation])
encodeChangeMasterCopy(implementation) == <<"changeMasterCopy", implementation>>

(***************************************************************************)
(* Payouts of the conditions.                                              *)
(***************************************************************************)
\* The conditions whose payouts the model follows.
PayoutConditionIds ==
    {MarketConditionId, getConditionId("loadedQuestion", User, DefaultOutcomeSlotCount)}

\* What the conditional tokens contract holds for a condition: the numerator
\* of each outcome slot and their sum, all zero until the oracle reports.
Payout(yes, no) == [numerators |-> <<yes, no>>, denominator |-> yes + no]
Payouts == {Payout(yes, no) : yes \in Amounts, no \in Amounts}
Unresolved == Payout(0, 0)

(***************************************************************************)
(* State.                                                                  *)
(***************************************************************************)
VARIABLES
    \* chain state read by the queries
    allowance,          \* allowance(cpk -> market maker) on each token
    approvedForAll,     \* isApprovedForAll(cpk, market maker)
    conditions,         \* prepared conditions, among LoadedConditionIds
    marketCollateral,   \* marketMaker.getCollateralToken()
    proxy,              \* the proxy account: deployed or not, and its masterCopy
    payouts,            \* payout numerators and denominator of each condition
    unconfirmed,        \* transactions sent to the chain that no invocation awaits
    \* one record per invocation of a workflow
    pc,                 \* position: the promise the invocation awaits
    op,                 \* the workflow invoked
    params,             \* its parameters
    locals,             \* its local constants
    transactions,       \* its local array `transactions`
    txOptions,          \* its local object `txOptions`
    \* what the invocation did to its collaborators
    execCalls,          \* arguments of each call of cpk.execTransactions
    pending,            \* batch accepted by the proxy, not yet mined
    receipt,            \* receipt of the mined batch
    errorLog,           \* calls of logger.error
    queries,            \* the awaited queries the invocation issued, in order
    result,             \* what the caller got
    \* the callers
    invoked             \* the invocations they have made

contractVars == <<allowance, approvedForAll, conditions, marketCollateral, proxy, payouts>>
chainVars == <<contractVars, unconfirmed>>
frameVars == <<pc, op, params, locals, transactions, txOptions>>
effectVars == <<execCalls, pending, receipt, errorLog, queries, result>>
sharedVars == <<chainVars, invoked>>
vars == <<sharedVars, frameVars, effectVars>>

Undefined == [type |-> "undefined"]
EmptyObject == [type |-> "object"]
NoParams == [type |-> "undefined"]
NoLocals == [type |-> "locals"]
NoReceipt == [type |-> "undefined"]
NoResult == [type |-> "pending"]

HasValue(o) == "value" \in DOMAIN o

\* No workflow has been invoked.
InitInvocations ==
    /\ pc = [i \in Invs |-> "idle"]
    /\ op = [i \in Invs |-> "none"]
    /\ params = [i \in Invs |-> NoParams]
    /\ locals = [i \in Invs |-> NoLocals]
    /\ transactions = [i \in Invs |-> <<>>]
    /\ txOptions = [i \in Invs |-> Undefined]
    /\ execCalls = [i \in Invs |-> <<>>]
    /\ pending = [i \in Invs |-> <<>>]
    /\ receipt = [i \in Invs |-> NoReceipt]
    /\ errorLog = [i \in Invs |-> 0]
    /\ queries = [i \in Invs |-> <<>>]
    /\ result = [i \in Invs |-> NoResult]
    /\ invoked = 0

(***************************************************************************)
(* Steps shared by the workflows.                                          *)
(***************************************************************************)
\* What a promise can be rejected with: any value, an Error or one of the two
\* values that have no properties.
Reasons == {"Error", "undefined", "null"}

\* `err.message` can be read: of undefined and of null it throws a TypeError.
HasProperties(err) == err \notin {"undefined", "null"}

Thrown(err) == [type |-> "thrown", error |-> err]
Returned(v) == [type |-> "returned", value |-> v]

\* A caller invokes workflow o with parameters p.  The code runs up to its
\* first await, issuing the query `first`; when the synchronous prefix
\* throws (first = "throw"), the catch block logs and rethrows at once.
Invoke(i, o, p, first) ==
    /\ pc[i] = "idle"
    /\ pc' = [pc EXCEPT ![i] = IF first = "throw" THEN "failed" ELSE first]
    /\ op' = [op EXCEPT ![i] = o]
    /\ params' = [params EXCEPT ![i] = p]
    /\ locals' = [locals EXCEPT ![i] = NoLocals]
    /\ transactions' = [transactions EXCEPT ![i] = <<>>]
    /\ txOptions' = [txOptions EXCEPT ![i] = Undefined]
    /\ execCalls' = [execCalls EXCEPT ![i] = <<>>]
    /\ pending' = [pending EXCEPT ![i] = <<>>]
    /\ receipt' = [receipt EXCEPT ![i] = NoReceipt]
    /\ errorLog' = [errorLog EXCEPT ![i] = IF first = "throw" THEN 1 ELSE 0]
    /\ queries' = [queries EXCEPT ![i] = IF first = "throw" THEN <<>> ELSE <<first>>]
    /\ result' = [result EXCEPT ![i] = IF first = "throw" THEN Thrown("Error") ELSE NoResult]
    /\ invoked' = invoked + 1
    /\ UNCHANGED chainVars

\* The invocation is in workflow o and the promise of `call` resolves.
Resolved(i, o, call) == op[i] = o /\ pc[i] = call

\* The code binds new locals, issues the query `next` and awaits it.
Await(i, newLocals, next) ==
    /\ locals' = [locals EXCEPT ![i] = newLocals @@ @]
    /\ pc' = [pc EXCEPT ![i] = next]
    /\ queries' = [queries EXCEPT ![i] = Append(@, next)]

\* `await this.cpk.execTransactions(txs, opts)`: the call is made, the
\* invocation awaits the transaction object.
CallExecTransactions(i, newLocals, txs, opts) ==
    /\ locals' = [locals EXCEPT ![i] = newLocals @@ @]
    /\ transactions' = [transactions EXCEPT ![i] = txs]
    /\ execCalls' = [execCalls EXCEPT ![i] =
                        Append(@, [transactions |-> txs, options |-> opts])]
    /\ pc' = [pc EXCEPT ![i] = "execTransactions"]

\* The catch block of every workflow: `logger.error(..., err.message)`, then
\* `throw err`.  The arguments are evaluated before the call: when err has no
\* properties, reading err.message throws a TypeError out of the catch block
\* and logger.error is not called.
Catch(i, err) ==
    /\ errorLog' = [errorLog EXCEPT ![i] = IF HasProperties(err) THEN @ + 1 ELSE @]
    /\ result' = [result EXCEPT ![i] =
          IF HasProperties(err) THEN Thrown(err) ELSE Thrown("TypeError")]
    /\ pc' = [pc EXCEPT ![i] = "failed"]

(***************************************************************************)
(* buyOutcomes                                                             *)
(***************************************************************************)
BuyParams == [amount : Amounts, outcomeIndex : {0, 1}]

BuyOutcomes(i) ==
    \E p \in BuyParams : Invoke(i, "buyOutcomes", p, "getAddress")

BuyGetAddress(i) ==
    /\ Resolved(i, "buyOutcomes", "getAddress")
    /\ Await(i, [account |-> User], "getCollateralToken")
    /\ UNCHANGED <<sharedVars, op, params, transactions, txOptions,
                   execCalls, pending, receipt, errorLog, result>>

BuyGetCollateralToken(i) ==
    /\ Resolved(i, "buyOutcomes", "getCollateralToken")
    /\ Await(i, [collateralAddress |-> marketCollateral], "calcBuyAmount")
    /\ UNCHANGED <<sharedVars, op, params, transactions, txOptions,
                   execCalls, pending, receipt, errorLog, result>>

\* Mutation of BuyTransactions: a quote of zero tokens drops the buy call.
BuyTransactions_SkipZeroQuote(account, collateralAddress, amount, outcomeIndex, outcomeTokensToBuy) ==
    << [to |-> collateralAddress,
        data |-> encodeTransferFrom(account, CpkAddress, amount)] >>
    \o (IF outcomeTokensToBuy = 0 THEN <<>>
        ELSE << [to |-> MarketMakerAddress,
                 data |-> encodeBuy(amount, outcomeIndex, outcomeTokensToBuy)] >>)

\* The initial array of buyOutcomes: transfer, then buy.
BuyTransactions(account, collateralAddress, amount, outcomeIndex, outcomeTokensToBuy) ==
    << [to |-> collateralAddress,
        data |-> encodeTransferFrom(account, CpkAddress, amount)],
       [to |-> MarketMakerAddress,
        data |-> encodeBuy(amount, outcomeIndex, outcomeTokensToBuy)] >>

\* Mutation of BuyCalcBuyAmount: the array is a field of the service, which
\* every invocation in flight shares.
BuyCalcBuyAmount_SharedArray(i) ==
    /\ Resolved(i, "buyOutcomes", "calcBuyAmount")
    /\ \E outcomeTokensToBuy \in Amounts :
        /\ Await(i, [outcomeTokensToBuy |-> outcomeTokensToBuy], "hasEnoughAllowance")
        /\ transactions' = [j \in Invs |->
              BuyTransactions(locals[i].account, locals[i].collateralAddress,
                              params[i].amount, params[i].outcomeIndex,
                              outcomeTokensToBuy)]
    /\ UNCHANGED <<sharedVars, op, params, txOptions,
                   execCalls, pending, receipt, errorLog, result>>

BuyCalcBuyAmount(i) ==
    /\ Resolved(i, "buyOutcomes", "calcBuyAmount")
    /\ \E outcomeTokensToBuy \in Amounts :
        /\ Await(i, [outcomeTokensToBuy |-> outcomeTokensToBuy], "hasEnoughAllowance")
        /\ transactions' = [transactions EXCEPT ![i] =
              BuyTransactions(locals[i].account, locals[i].collateralAddress,
                              params[i].amount, params[i].outcomeIndex,
                              outcomeTokensToBuy)]
    /\ UNCHANGED <<sharedVars, op, params, txOptions,
                   execCalls, pending, receipt, errorLog, result>>

\* Mutation of BuyWithApproval: the approve call is pushed, not unshifted.
BuyWithApproval_Push(txs, collateralAddress, hasCPKEnoughAlowance) ==
    IF ~hasCPKEnoughAlowance
    THEN txs \o << [to |-> collateralAddress,
                    data |-> encodeApproveUnlimited(MarketMakerAddress)] >>
    ELSE txs

\* transactions.unshift(approve) when the allowance is not enough.
BuyWithApproval(txs, collateralAddress, hasCPKEnoughAlowance) ==
    IF ~hasCPKEnoughAlowance
    THEN << [to |-> collateralAddress,
             data |-> encodeApproveUnlimited(MarketMakerAddress)] >> \o txs
    ELSE txs

\* Mutation of BuyHasEnoughAllowance: the allowance is taken to be enough.
BuyHasEnoughAllowance_NoApproval(i) ==
    /\ Resolved(i, "buyOutcomes", "hasEnoughAllowance")
    /\ LET allowed == allowance[locals[i].collateralAddress]
           hasCPKEnoughAlowance == TRUE
       IN CallExecTransactions(i,
             [queriedAllowance |-> allowed,
              hasCPKEnoughAlowance |-> hasCPKEnoughAlowance],
             BuyWithApproval(transactions[i], locals[i].collateralAddress,
                             hasCPKEnoughAlowance),
             Undefined)
    /\ UNCHANGED <<sharedVars, op, params, txOptions,
                   pending, receipt, errorLog, queries, result>>

BuyHasEnoughAllowance(i) ==
    /\ Resolved(i, "buyOutcomes", "hasEnoughAllowance")
    /\ LET allowed == allowance[locals[i].collateralAddress]
           hasCPKEnoughAlowance == HasEnoughAllowance(allowed, params[i].amount)
       IN CallExecTransactions(i,
             [queriedAllowance |-> allowed,
              hasCPKEnoughAlowance |-> hasCPKEnoughAlowance],
             BuyWithApproval(transactions[i], locals[i].collateralAddress,
                             hasCPKEnoughAlowance),
             Undefined)
    /\ UNCHANGED <<sharedVars, op, params, txOptions,
                   pending, receipt, errorLog, queries, result>>

(***************************************************************************)
(* sellOutcomes                                                            *)
(***************************************************************************)
SellParams == [amount : Amounts, outcomeIndex : {0, 1}]

SellOutcomes(i) ==
    \E p \in SellParams : Invoke(i, "sellOutcomes", p, "getAddress")

SellGetAddress(i) ==
    /\ Resolved(i, "sellOutcomes", "getAddress")
    /\ Await(i, [account |-> User], "calcSellAmount")
    /\ UNCHANGED <<sharedVars, op, params, transactions, txOptions,
                   execCalls, pending, receipt, errorLog, result>>

SellCalcSellAmount(i) ==
    /\ Resolved(i, "sellOutcomes", "calcSellAmount")
    /\ \E outcomeTokensToSell \in Amounts :
        Await(i, [outcomeTokensToSell |-> outcomeTokensToSell], "getCollateralToken")
    /\ UNCHANGED <<sharedVars, op, params, transactions, txOptions,
                   execCalls, pending, receipt, errorLog, result>>

SellGetCollateralToken(i) ==
    /\ Resolved(i, "sellOutcomes", "getCollateralToken")
    /\ Await(i, [collateralAddress |-> marketCollateral], "isApprovedForAll")
    /\ UNCHANGED <<sharedVars, op, params, transactions, txOptions,
                   execCalls, pending, receipt, errorLog, result>>

\* Mutation of SellTransactions: the approval is set whatever the query said.
SellTransactions_AlwaysApprove(account, collateralAddress, amount, outcomeIndex, outcomeTokensToSell, isAlreadyApprovedForMarketMaker) ==
    << [to |-> ConditionalTokensAddress,
        data |-> encodeSetApprovalForAll(MarketMakerAddress, TRUE)],
       [to |-> MarketMakerAddress,
        data |-> encodeSell(amount, outcomeIndex, outcomeTokensToSell)],
       [to |-> collateralAddress,
        data |-> encodeTransfer(account, amount)] >>

\* The array built by sellOutcomes from the approval it was told.
SellTransactions(account, collateralAddress, amount, outcomeIndex, outcomeTokensToSell, isAlreadyApprovedForMarketMaker) ==
    (IF ~isAlreadyApprovedForMarketMaker
     THEN << [to |-> ConditionalTokensAddress,
              data |-> encodeSetApprovalForAll(MarketMakerAddress, TRUE)] >>
     ELSE <<>>)
    \o << [to |-> MarketMakerAddress,
           data |-> encodeSell(amount, outcomeIndex, outcomeTokensToSell)],
          [to |-> collateralAddress,
           data |-> encodeTransfer(account, amount)] >>

SellIsApprovedForAll(i) ==
    /\ Resolved(i, "sellOutcomes", "isApprovedForAll")
    /\ LET isAlreadyApprovedForMarketMaker == approvedForAll
       IN CallExecTransactions(i,
             [isAlreadyApprovedForMarketMaker |-> isAlreadyApprovedForMarketMaker],
             SellTransactions(locals[i].account, locals[i].collateralAddress,
                              params[i].amount, params[i].outcomeIndex,
                              locals[i].outcomeTokensToSell,
                              isAlreadyApprovedForMarketMaker),
             Undefined)
    /\ UNCHANGED <<sharedVars, op, params, txOptions,
                   pending, receipt, errorLog, queries, result>>

(***************************************************************************)
(* createMarket                                                            *)
(***************************************************************************)
MARKET_FEE == 4

Token(address) == [address |-> address]

\* getToken(networkId, 'weth')
WethToken == Token(Weth)

MarketDatas ==
    [collateral : {Token(Dai), Token(pseudoEthAddress)},
     funding : Amounts,
     loadedQuestionId : {Null, Str("loadedQuestion")},
     resolution : {Null, DateValue},
     outcomes : OutcomeCounts,
     question : {"question"},
     spread : {MARKET_FEE}]

\* realitio.askQuestionConstant: the id the oracle will give the question.
askQuestionConstant(question, arbitrator, openingDate, questioner) == "askedQuestion"

\* marketMakerFactory.predictMarketMakerAddress
predictMarketMakerAddress(saltNonce, ct, collateral, conditionId, creator, spread) ==
    <<"predictedMarketMaker", saltNonce, ct, collateral, conditionId, creator, spread>>

\* calcDistributionHint over the probabilities of the outcomes.
calcDistributionHint(outcomes) == <<"distributionHint", outcomes>>

IsNative(marketData) == marketData.collateral.address = pseudoEthAddress

\* Mutation of CreateMarketCollateral: the given collateral is kept even
\* when it is the pseudo address of native ether.
CreateMarketCollateral_Given(marketData) == marketData.collateral

\* `collateral` of createMarket: WETH when funding with native ether.
CreateMarketCollateral(marketData) ==
    IF IsNative(marketData) THEN WethToken ELSE marketData.collateral

\* Mutation of CreateMarketWrap: the wrap call is left out.
CreateMarketWrap_Skipped(marketData) == <<>>

\* Step 0: wrap ether.
CreateMarketWrap(marketData) ==
    IF IsNative(marketData)
    THEN << [to |-> CreateMarketCollateral(marketData).address,
             value |-> marketData.funding] >>
    ELSE <<>>

CreateMarketTxOptions(marketData) ==
    IF IsNative(marketData)
    THEN [type |-> "object", value |-> marketData.funding]
    ELSE EmptyObject

\* Step 1: create the question in realitio.
CreateMarketAskQuestion(marketData) ==
    << [to |-> RealitioAddress,
        data |-> encodeAskQuestion(marketData.question, ArbitratorAddress,
                                   marketData.resolution)] >>

\* Mutation of CreateMarketPrepareApproveTransfer: the condition is prepared
\* whether it exists or not.
CreateMarketPrepareApproveTransfer_AlwaysPrepare(marketData, account, questionId, conditionExists) ==
    << [to |-> ConditionalTokensAddress,
        data |-> encodePrepareCondition(questionId, OracleAddress,
                                        marketData.outcomes)] >>
    \o << [to |-> CreateMarketCollateral(marketData).address,
           data |-> encodeApproveUnlimited(FactoryAddress)] >>
    \o (IF marketData.collateral.address # pseudoEthAddress
        THEN << [to |-> CreateMarketCollateral(marketData).address,
                 data |-> encodeTransferFrom(account, CpkAddress, marketData.funding)] >>
        ELSE <<>>)

\* Mutation of CreateMarketPrepareApproveTransfer: the funding is
\* transferred before the approval.
CreateMarketPrepareApproveTransfer_TransferFirst(marketData, account, questionId, conditionExists) ==
    (IF ~conditionExists
     THEN << [to |-> ConditionalTokensAddress,
              data |-> encodePrepareCondition(questionId, OracleAddress,
                                              marketData.outcomes)] >>
     ELSE <<>>)
    \o (IF marketData.collateral.address # pseudoEthAddress
        THEN << [to |-> CreateMarketCollateral(marketData).address,
                 data |-> encodeTransferFrom(account, CpkAddress, marketData.funding)] >>
        ELSE <<>>)
    \o << [to |-> CreateMarketCollateral(marketData).address,
           data |-> encodeApproveUnlimited(FactoryAddress)] >>

\* Steps 2 to 4, pushed once the question id and the existence of the
\* condition are known.
CreateMarketPrepareApproveTransfer(marketData, account, questionId, conditionExists) ==
    (IF ~conditionExists
     THEN << [to |-> ConditionalTokensAddress,
              data |-> encodePrepareCondition(questionId, OracleAddress,
                                              marketData.outcomes)] >>
     ELSE <<>>)
    \o << [to |-> CreateMarketCollateral(marketData).address,
           data |-> encodeApproveUnlimited(FactoryAddress)] >>
    \o (IF marketData.collateral.address # pseudoEthAddress
        THEN << [to |-> CreateMarketCollateral(marketData).address,
                 data |-> encodeTransferFrom(account, CpkAddress, marketData.funding)] >>
        ELSE <<>>)

\* Mutation of CreateMarketCreateMarketMaker: the call carries the collateral
\* of marketData as it was given.
CreateMarketCreateMarketMaker_GivenCollateral(marketData, saltNonce, conditionId) ==
    << [to |-> FactoryAddress,
        data |-> encodeCreateMarketMaker(saltNonce, ConditionalTokensAddress,
                    marketData.collateral.address, conditionId,
                    marketData.spread, marketData.funding,
                    calcDistributionHint(marketData.outcomes))] >>

\* Step 5: create the market maker.
CreateMarketCreateMarketMaker(marketData, saltNonce, conditionId) ==
    << [to |-> FactoryAddress,
        data |-> encodeCreateMarketMaker(saltNonce, ConditionalTokensAddress,
                    CreateMarketCollateral(marketData).address, conditionId,
                    marketData.spread, marketData.funding,
                    calcDistributionHint(marketData.outcomes))] >>

\* Mutation of CreateMarket: the resolution time is not checked.
CreateMarket_NoResolutionCheck(i) ==
    \E marketData \in MarketDatas :
        Invoke(i, "createMarket", [marketData |-> marketData], "getAddress")

CreateMarket(i) ==
    \E marketData \in MarketDatas :
        Invoke(i, "createMarket", [marketData |-> marketData],
               IF ~Truthy(marketData.resolution) THEN "throw" ELSE "getAddress")

CreateGetAddress(i) ==
    /\ Resolved(i, "createMarket", "getAddress")
    /\ Await(i, [account |-> User], "getNetwork")
    /\ UNCHANGED <<sharedVars, op, params, transactions, txOptions,
                   execCalls, pending, receipt, errorLog, result>>

\* Mutation of CreateGetNetwork: the question is asked before ether is wrapped.
CreateGetNetwork_AskFirst(i) ==
    /\ Resolved(i, "createMarket", "getNetwork")
    /\ LET marketData == params[i].marketData
           loadedQuestionId == marketData.loadedQuestionId
       IN /\ txOptions' = [txOptions EXCEPT ![i] = CreateMarketTxOptions(marketData)]
          /\ IF Truthy(loadedQuestionId)
             THEN /\ transactions' = [transactions EXCEPT ![i] =
                        CreateMarketWrap(marketData)]
                  /\ Await(i,
                        [questionId |-> loadedQuestionId.value,
                         conditionId |-> getConditionId(loadedQuestionId.value,
                                            OracleAddress, marketData.outcomes)],
                        "doesConditionExist")
             ELSE /\ transactions' = [transactions EXCEPT ![i] =
                        CreateMarketAskQuestion(marketData) \o CreateMarketWrap(marketData)]
                  /\ Await(i, NoLocals, "askQuestionConstant")
    /\ UNCHANGED <<sharedVars, op, params,
                   execCalls, pending, receipt, errorLog, result>>

\* From the network to the first query about the question: the wrap call,
\* and either the loaded question id or the ask-question call.
CreateGetNetwork(i) ==
    /\ Resolved(i, "createMarket", "getNetwork")
    /\ LET marketData == params[i].marketData
           loadedQuestionId == marketData.loadedQuestionId
       IN /\ txOptions' = [txOptions EXCEPT ![i] = CreateMarketTxOptions(marketData)]
          /\ IF Truthy(loadedQuestionId)
             THEN /\ transactions' = [transactions EXCEPT ![i] =
                        CreateMarketWrap(marketData)]
                  /\ Await(i,
                        [questionId |-> loadedQuestionId.value,
                         conditionId |-> getConditionId(loadedQuestionId.value,
                                            OracleAddress, marketData.outcomes)],
                        "doesConditionExist")
             ELSE /\ transactions' = [transactions EXCEPT ![i] =
                        CreateMarketWrap(marketData) \o CreateMarketAskQuestion(marketData)]
                  /\ Await(i, NoLocals, "askQuestionConstant")
    /\ UNCHANGED <<sharedVars, op, params,
                   execCalls, pending, receipt, errorLog, result>>

\* The code between the question/condition queries and the prediction of
\* the market maker address.
CreateMarketContinue(i, questionId, conditionId, conditionExists) ==
    LET marketData == params[i].marketData
    IN \E saltNonce \in Salts :
        /\ transactions' = [transactions EXCEPT ![i] =
              @ \o CreateMarketPrepareApproveTransfer(marketData, locals[i].account,
                                                      questionId, conditionExists)]
        /\ Await(i,
              [questionId |-> questionId, conditionId |-> conditionId,
               conditionExists |-> conditionExists, saltNonce |-> saltNonce],
              "predictMarketMakerAddress")

CreateAskQuestionConstant(i) ==
    /\ Resolved(i, "createMarket", "askQuestionConstant")
    /\ LET marketData == params[i].marketData
           questionId == askQuestionConstant(marketData.question, ArbitratorAddress,
                                             marketData.resolution, CpkAddress)
       IN CreateMarketContinue(i, questionId,
             getConditionId(questionId, OracleAddress, marketData.outcomes), FALSE)
    /\ UNCHANGED <<sharedVars, op, params, txOptions,
                   execCalls, pending, receipt, errorLog, result>>

CreateDoesConditionExist(i) ==
    /\ Resolved(i, "createMarket", "doesConditionExist")
    /\ CreateMarketContinue(i, locals[i].questionId, locals[i].conditionId,
                            locals[i].conditionId \in conditions)
    /\ UNCHANGED <<sharedVars, op, params, txOptions,
                   execCalls, pending, receipt, errorLog, result>>

\* Mutation of CreatePredictMarketMakerAddress: the address is predicted for
\* the condition of the loaded question.
CreatePredictMarketMakerAddress_OtherCondition(i) ==
    /\ Resolved(i, "createMarket", "predictMarketMakerAddress")
    /\ LET marketData == params[i].marketData
       IN CallExecTransactions(i,
             [predictedMarketMakerAddress |->
                 predictMarketMakerAddress(locals[i].saltNonce, ConditionalTokensAddress,
                     CreateMarketCollateral(marketData).address, MarketConditionId,
                     CpkAddress, marketData.spread)],
             transactions[i] \o CreateMarketCreateMarketMaker(marketData,
                                    locals[i].saltNonce, locals[i].conditionId),
             txOptions[i])
    /\ UNCHANGED <<sharedVars, op, params, txOptions,
                   pending, receipt, errorLog, queries, result>>

CreatePredictMarketMakerAddress(i) ==
    /\ Resolved(i, "createMarket", "predictMarketMakerAddress")
    /\ LET marketData == params[i].marketData
       IN CallExecTransactions(i,
             [predictedMarketMakerAddress |->
                 predictMarketMakerAddress(locals[i].saltNonce, ConditionalTokensAddress,
                     CreateMarketCollateral(marketData).address, locals[i].conditionId,
                     CpkAddress, marketData.spread)],
             transactions[i] \o CreateMarketCreateMarketMaker(marketData,
                                    locals[i].saltNonce, locals[i].conditionId),
             txOptions[i])
    /\ UNCHANGED <<sharedVars, op, params, txOptions,
                   pending, receipt, errorLog, queries, result>>

(***************************************************************************)
(* addFunding                                                              *)
(***************************************************************************)
AddFundingParams ==
    [amount : Amounts, collateral : {Token(Dai), Token(Weth), Token(pseudoEthAddress)}]

AddFunding(i) ==
    \E p \in AddFundingParams : Invoke(i, "addFunding", p, "getAddress")

AddGetAddress(i) ==
    /\ Resolved(i, "addFunding", "getAddress")
    /\ Await(i, [account |-> User], "getNetwork")
    /\ UNCHANGED <<sharedVars, op, params, transactions, txOptions,
                   execCalls, pending, receipt, errorLog, result>>

\* `collateralAddress` of addFunding: WETH when funding with native ether.
AddFundingCollateralAddress(collateral) ==
    IF collateral.address = pseudoEthAddress THEN WethToken.address ELSE collateral.address

\* Step 0: wrap ether.
AddFundingWrap(collateral, amount) ==
    IF collateral.address = pseudoEthAddress
    THEN << [to |-> AddFundingCollateralAddress(collateral), value |-> amount] >>
    ELSE <<>>

\* Mutation of AddFundingTxOptions: no value is passed with the submission.
AddFundingTxOptions_Empty(collateral, amount) == EmptyObject

AddFundingTxOptions(collateral, amount) ==
    IF collateral.address = pseudoEthAddress
    THEN [type |-> "object", value |-> amount]
    ELSE EmptyObject

AddGetNetwork(i) ==
    /\ Resolved(i, "addFunding", "getNetwork")
    /\ txOptions' = [txOptions EXCEPT ![i] =
          AddFundingTxOptions(params[i].collateral, params[i].amount)]
    /\ transactions' = [transactions EXCEPT ![i] =
          AddFundingWrap(params[i].collateral, params[i].amount)]
    /\ Await(i, [collateralAddress |-> AddFundingCollateralAddress(params[i].collateral)],
             "hasEnoughAllowance")
    /\ UNCHANGED <<sharedVars, op, params,
                   execCalls, pending, receipt, errorLog, result>>

\* Mutation of AddFundingApproveTransferAdd: the funding is transferred from
\* the user even when it was sent as native ether.
AddFundingApproveTransferAdd_AlwaysTransfer(collateral, collateralAddress, account, amount, hasCPKEnoughAlowance) ==
    (IF ~hasCPKEnoughAlowance
     THEN << [to |-> collateralAddress,
              data |-> encodeApproveUnlimited(MarketMakerAddress)] >>
     ELSE <<>>)
    \o << [to |-> collateralAddress,
           data |-> encodeTransferFrom(account, CpkAddress, amount)] >>
    \o << [to |-> MarketMakerAddress, data |-> encodeAddFunding(amount)] >>

\* Steps 1 to 3, pushed once the allowance is known.
AddFundingApproveTransferAdd(collateral, collateralAddress, account, amount, hasCPKEnoughAlowance) ==
    (IF ~hasCPKEnoughAlowance
     THEN << [to |-> collateralAddress,
              data |-> encodeApproveUnlimited(MarketMakerAddress)] >>
     ELSE <<>>)
    \o (IF collateral.address # pseudoEthAddress
        THEN << [to |-> collateralAddress,
                 data |-> encodeTransferFrom(account, CpkAddress, amount)] >>
        ELSE <<>>)
    \o << [to |-> MarketMakerAddress, data |-> encodeAddFunding(amount)] >>

AddHasEnoughAllowance(i) ==
    /\ Resolved(i, "addFunding", "hasEnoughAllowance")
    /\ LET allowed == allowance[locals[i].collateralAddress]
           hasCPKEnoughAlowance == HasEnoughAllowance(allowed, params[i].amount)
       IN CallExecTransactions(i,
             [queriedAllowance |-> allowed,
              hasCPKEnoughAlowance |-> hasCPKEnoughAlowance],
             transactions[i] \o
                AddFundingApproveTransferAdd(params[i].collateral,
                    locals[i].collateralAddress, locals[i].account,
                    params[i].amount, hasCPKEnoughAlowance),
             txOptions[i])
    /\ UNCHANGED <<sharedVars, op, params, txOptions,
                   pending, receipt, errorLog, queries, result>>

(***************************************************************************)
(* removeFunding                                                           *)
(***************************************************************************)
RemoveFundingParams ==
    [amountToMerge : Amounts, earnings : Amounts, sharesToBurn : Amounts,
     collateralAddress : Tokens, conditionId : {MarketConditionId},
     outcomesCount : {DefaultOutcomeSlotCount}]

RemoveFunding(i) ==
    \E p \in RemoveFundingParams : Invoke(i, "removeFunding", p, "getAddress")

\* BigNumber.add: exact, BigNumbers are not bounded by the uint width.
BigNumberAdd(a, b) == a + b

\* The ABI coder rejects a uint256 argument that does not fit.
FitsUint(n) == 0 <= n /\ n <= MaxUint

\* Mutation of RemoveFundingTransactions: the earnings are not transferred.
RemoveFundingTransactions_NoEarnings(p, account) ==
    << [to |-> MarketMakerAddress,
        data |-> encodeRemoveFunding(p.sharesToBurn)],
       [to |-> ConditionalTokensAddress,
        data |-> encodeMergePositions(p.collateralAddress, p.conditionId,
                                      p.outcomesCount, p.amountToMerge)],
       [to |-> p.collateralAddress,
        data |-> encodeTransfer(account, p.amountToMerge)] >>

\* The three calls of removeFunding.
RemoveFundingTransactions(p, account) ==
    << [to |-> MarketMakerAddress,
        data |-> encodeRemoveFunding(p.sharesToBurn)],
       [to |-> ConditionalTokensAddress,
        data |-> encodeMergePositions(p.collateralAddress, p.conditionId,
                                      p.outcomesCount, p.amountToMerge)],
       [to |-> p.collateralAddress,
        data |-> encodeTransfer(account, BigNumberAdd(p.amountToMerge, p.earnings))] >>

RemoveGetAddress(i) ==
    /\ Resolved(i, "removeFunding", "getAddress")
    /\ IF FitsUint(BigNumberAdd(params[i].amountToMerge, params[i].earnings))
       THEN /\ CallExecTransactions(i, [account |-> User],
                  RemoveFundingTransactions(params[i], User), Undefined)
            /\ UNCHANGED <<errorLog, result>>
       ELSE /\ Catch(i, "Error")
            /\ locals' = [locals EXCEPT ![i] = [account |-> User] @@ @]
            /\ UNCHANGED <<transactions, execCalls>>
    /\ UNCHANGED <<sharedVars, op, params, txOptions, pending, receipt, queries>>

(***************************************************************************)
(* redeemPositions                                                         *)
(***************************************************************************)
SINGLE_SELECT_TEMPLATE_ID == 2

RedeemParams ==
    [isConditionResolved : BOOLEAN,
     earnedCollateral : {Null} \cup {BN(n) : n \in Amounts},
     numOutcomes : {DefaultOutcomeSlotCount},
     collateralToken : {Token(t) : t \in Tokens},
     question : {[id |-> "loadedQuestion", templateId |-> SINGLE_SELECT_TEMPLATE_ID,
                  raw |-> "question"]}]

RedeemPositions(i) ==
    \E p \in RedeemParams : Invoke(i, "redeemPositions", p, "getAddress")

\* Mutation of RedeemResolveCondition: the test of isConditionResolved is
\* inverted.
RedeemResolveCondition_Inverted(p) ==
    IF p.isConditionResolved
    THEN << [to |-> OracleAddress,
             data |-> encodeResolveCondition(p.question.id, p.question.templateId,
                                             p.question.raw, p.numOutcomes)] >>
    ELSE <<>>

\* The resolve-condition call, pushed when the condition is not resolved.
RedeemResolveCondition(p) ==
    IF ~p.isConditionResolved
    THEN << [to |-> OracleAddress,
             data |-> encodeResolveCondition(p.question.id, p.question.templateId,
                                             p.question.raw, p.numOutcomes)] >>
    ELSE <<>>

RedeemGetAddress(i) ==
    /\ Resolved(i, "redeemPositions", "getAddress")
    /\ transactions' = [transactions EXCEPT ![i] = RedeemResolveCondition(params[i])]
    /\ Await(i, [account |-> User], "getConditionId")
    /\ UNCHANGED <<sharedVars, op, params, txOptions,
                   execCalls, pending, receipt, errorLog, result>>

\* The redeem call, and the transfer guarded by `if (earnedCollateral)`.
RedeemAndTransfer(p, account, conditionId) ==
    << [to |-> ConditionalTokensAddress,
        data |-> encodeRedeemPositions(p.collateralToken.address, conditionId,
                                       p.numOutcomes)] >>
    \o (IF Truthy(p.earnedCollateral)
        THEN << [to |-> p.collateralToken.address,
                 data |-> encodeTransfer(account, p.earnedCollateral.value)] >>
        ELSE <<>>)

RedeemGetConditionId(i) ==
    /\ Resolved(i, "redeemPositions", "getConditionId")
    /\ CallExecTransactions(i, [conditionId |-> MarketConditionId],
          transactions[i] \o RedeemAndTransfer(params[i], locals[i].account,
                                               MarketConditionId),
          Undefined)
    /\ UNCHANGED <<sharedVars, op, params, txOptions,
                   pending, receipt, errorLog, queries, result>>

(***************************************************************************)
(* upgradeProxyImplementation                                              *)
(***************************************************************************)
\* Mutation of UpgradeTransactions: a second call follows the upgrade.
UpgradeTransactions_WithApproval ==
    <<[to |-> CpkAddress, data |-> encodeChangeMasterCopy(targetGnosisSafeImplementation)],
      [to |-> ConditionalTokensAddress,
       data |-> encodeSetApprovalForAll(MarketMakerAddress, TRUE)]>>

\* The batch of the upgrade: the proxy calls changeMasterCopy on itself.
UpgradeTransactions ==
    <<[to |-> CpkAddress, data |-> encodeChangeMasterCopy(targetGnosisSafeImplementation)]>>

\* The workflow issues no query: its first await is the submission, which
\* it makes without options.
UpgradeProxyImplementation(i) ==
    /\ pc[i] = "idle"
    /\ op' = [op EXCEPT ![i] = "upgradeProxyImplementation"]
    /\ params' = [params EXCEPT ![i] = NoParams]
    /\ CallExecTransactions(i, NoLocals, UpgradeTransactions, Undefined)
    /\ invoked' = invoked + 1
    /\ UNCHANGED <<chainVars, txOptions, pending, receipt, errorLog, queries, result>>

(***************************************************************************)
(* proxyIsUpToDate                                                         *)
(***************************************************************************)
\* Mutation of IsTargetImplementation: the texts are compared as they are.
IsTargetImplementation_CaseSensitive(implementation) ==
    implementation = targetGnosisSafeImplementation

\* implementation.toLowerCase() === targetGnosisSafeImplementation.toLowerCase()
IsTargetImplementation(implementation) ==
    ToLowerCase(implementation) = ToLowerCase(targetGnosisSafeImplementation)

ProxyIsUpToDate(i) == Invoke(i, "proxyIsUpToDate", NoParams, "isProxyDeployed")

\* cpk.isProxyDeployed() resolves: an undeployed proxy is not up to date,
\* the masterCopy of a deployed one is read.
ProxyIsProxyDeployed(i) ==
    /\ Resolved(i, "proxyIsUpToDate", "isProxyDeployed")
    /\ IF proxy.deployed
       THEN /\ Await(i, [deployed |-> TRUE], "masterCopy")
            /\ UNCHANGED result
       ELSE /\ locals' = [locals EXCEPT ![i] = [deployed |-> FALSE] @@ @]
            /\ result' = [result EXCEPT ![i] = Returned(FALSE)]
            /\ pc' = [pc EXCEPT ![i] = "done"]
            /\ UNCHANGED queries
    /\ UNCHANGED <<sharedVars, op, params, transactions, txOptions,
                   execCalls, pending, receipt, errorLog>>

\* proxy.masterCopy() resolves with a text of the implementation address.
ProxyMasterCopy(i) ==
    /\ Resolved(i, "proxyIsUpToDate", "masterCopy")
    /\ \E implementation \in Renderings(proxy.masterCopy) :
        /\ locals' = [locals EXCEPT ![i] = [implementation |-> implementation] @@ @]
        /\ result' = [result EXCEPT ![i] = Returned(IsTargetImplementation(implementation))]
    /\ pc' = [pc EXCEPT ![i] = "done"]
    /\ UNCHANGED <<sharedVars, op, params, transactions, txOptions,
                   execCalls, pending, receipt, errorLog, queries>>

\* One of its two queries rejects: the function has no catch block, the
\* rejection reaches the caller as it is.
ProxyQueryRejected(i) ==
    /\ op[i] = "proxyIsUpToDate"
    /\ pc[i] \in {"isProxyDeployed", "masterCopy"}
    /\ \E err \in Reasons : result' = [result EXCEPT ![i] = Thrown(err)]
    /\ pc' = [pc EXCEPT ![i] = "failed"]
    /\ UNCHANGED <<sharedVars, op, params, locals, transactions, txOptions,
                   execCalls, pending, receipt, errorLog, queries>>

(***************************************************************************)
(* ConditionalTokenService.getWinnerOutcome and isConditionResolved        *)
(***************************************************************************)
\* yesNumerator.isZero() ? WinnerOutcome.No : WinnerOutcome.Yes
WinnerOutcome(yesNumerator) == IF yesNumerator = 0 THEN "No" ELSE "Yes"

GetWinnerOutcome(i) ==
    \E c \in PayoutConditionIds :
        Invoke(i, "getWinnerOutcome", [conditionId |-> c], "payoutNumerators")

\* payoutNumerators(conditionId, 0) resolves.
GetWinnerPayoutNumerators(i) ==
    /\ Resolved(i, "getWinnerOutcome", "payoutNumerators")
    /\ LET yesNumerator == payouts[params[i].conditionId].numerators[1]
       IN /\ locals' = [locals EXCEPT ![i] = [yesNumerator |-> yesNumerator] @@ @]
          /\ result' = [result EXCEPT ![i] = Returned(WinnerOutcome(yesNumerator))]
    /\ pc' = [pc EXCEPT ![i] = "done"]
    /\ UNCHANGED <<sharedVars, op, params, transactions, txOptions,
                   execCalls, pending, receipt, errorLog, queries>>

IsConditionResolved(i) ==
    \E c \in PayoutConditionIds :
        Invoke(i, "isConditionResolved", [conditionId |-> c], "payoutDenominator")

\* payoutDenominator(conditionId) resolves.
IsConditionResolvedPayoutDenominator(i) ==
    /\ Resolved(i, "isConditionResolved", "payoutDenominator")
    /\ LET payoutDenominator == payouts[params[i].conditionId].denominator
       IN /\ locals' = [locals EXCEPT ![i] = [payoutDenominator |-> payoutDenominator] @@ @]
          /\ result' = [result EXCEPT ![i] = Returned(payoutDenominator # 0)]
    /\ pc' = [pc EXCEPT ![i] = "done"]
    /\ UNCHANGED <<sharedVars, op, params, transactions, txOptions,
                   execCalls, pending, receipt, errorLog, queries>>

\* The query of either function, or the sending of the report, rejects: none
\* of the three functions has a catch block.
PayoutQueryRejected(i) ==
    /\ pc[i] \in {"payoutNumerators", "payoutDenominator", "reportPayouts"}
    /\ \E err \in Reasons : result' = [result EXCEPT ![i] = Thrown(err)]
    /\ pc' = [pc EXCEPT ![i] = "failed"]
    /\ UNCHANGED <<sharedVars, op, params, locals, transactions, txOptions,
                   execCalls, pending, receipt, errorLog, queries>>

(***************************************************************************)
(* Submission, mining and confirmation.                                    *)
(***************************************************************************)
\* The proxy accepts the batch and returns the transaction object.
ExecTransactionsResolved(i) ==
    /\ pc[i] = "execTransactions"
    /\ pending' = [pending EXCEPT ![i] = execCalls[i][Len(execCalls[i])].transactions]
    /\ pc' = [pc EXCEPT ![i] = "waitForTransaction"]
    /\ UNCHANGED <<sharedVars, op, params, locals, transactions, txOptions,
                   execCalls, receipt, errorLog, queries, result>>

\* What one call of a batch does to the chain state the queries read.  The
\* market maker pulls the amount of a buy or of an addFunding from the proxy:
\* the call reverts when the allowance does not cover it, and uses up an
\* allowance that is not without limit.  A report of payouts resolves the
\* condition of its question whose oracle is the sender, once.
ApplyCall(st, tx) ==
    IF HasValue(tx) THEN st
    ELSE CASE tx.data[1] \in {"buy", "addFunding"} ->
                IF st.allowance[st.collateral] < tx.data[2]
                THEN [st EXCEPT !.reverted = TRUE]
                ELSE IF st.allowance[st.collateral] = MaxUint THEN st
                ELSE [st EXCEPT !.allowance[st.collateral] = @ - tx.data[2]]
           [] tx.data[1] = "approve" /\ tx.data[2] = MarketMakerAddress ->
                [st EXCEPT !.allowance[tx.to] = tx.data[3]]
           [] tx.data[1] = "setApprovalForAll" /\ tx.data[2] = MarketMakerAddress ->
                [st EXCEPT !.approvedForAll = tx.data[3]]
           [] tx.data[1] = "prepareCondition" ->
                [st EXCEPT !.conditions =
                    @ \cup ({getConditionId(tx.data[2], tx.data[3], tx.data[4])}
                            \cap LoadedConditionIds)]
           [] tx.data[1] = "changeMasterCopy" /\ tx.to = CpkAddress ->
                [st EXCEPT !.proxy = Deployed(ToLowerCase(tx.data[2]))]
           [] tx.data[1] = "reportPayouts" ->
                LET conditionId == getConditionId(tx.data[2], st.from, Len(tx.data[3]))
                IN IF conditionId \notin PayoutConditionIds THEN st
                   ELSE IF st.payouts[conditionId] # Unresolved
                   THEN [st EXCEPT !.reverted = TRUE]
                   ELSE [st EXCEPT !.payouts[conditionId] =
                            Payout(tx.data[3][1], tx.data[3][2])]
           [] OTHER -> st

RECURSIVE ApplyBatch(_, _)
ApplyBatch(st, txs) ==
    IF txs = <<>> THEN st ELSE ApplyBatch(ApplyCall(st, Head(txs)), Tail(txs))

\* A transaction as the chain holds it: its sender, its calls, and the
\* collateral of the market its buy or addFunding call pulls.
Transaction(from, calls, collateral) ==
    [from |-> from, calls |-> calls, collateral |-> collateral]

\* The batch of invocation i, which the proxy sends.
PendingTransaction(i) ==
    Transaction(CpkAddress, pending[i],
                IF "collateralAddress" \in DOMAIN locals[i]
                THEN locals[i].collateralAddress
                ELSE marketCollateral)

\* The chain executes a transaction atomically: all of its calls or, when it
\* reverts, none.  The first batch of an undeployed proxy deploys it, with
\* the implementation its factory knows, before the calls run.
Executed(tx, status, implementation) ==
    LET st == [allowance |-> allowance, approvedForAll |-> approvedForAll,
               conditions |-> conditions, proxy |-> proxy, payouts |-> payouts,
               collateral |-> tx.collateral, from |-> tx.from, reverted |-> FALSE]
        deployed == IF proxy.deployed \/ tx.from # CpkAddress THEN st
                    ELSE [st EXCEPT !.proxy = Deployed(implementation)]
        executed == ApplyBatch(deployed, tx.calls)
        success == status = 1 /\ ~executed.reverted
    IN [success |-> success, after |-> IF success THEN executed ELSE st]

\* The chain state becomes the one the executed transaction leaves.
Becomes(after) ==
    /\ allowance' = after.allowance
    /\ approvedForAll' = after.approvedForAll
    /\ conditions' = after.conditions
    /\ proxy' = after.proxy
    /\ payouts' = after.payouts
    /\ UNCHANGED marketCollateral

\* The pending batch of invocation i is mined.
Mine(i) ==
    /\ pending[i] # <<>>
    /\ \E status \in {0, 1}, implementation \in Implementations :
        LET mined == Executed(PendingTransaction(i), status, implementation)
        IN /\ Becomes(mined.after)
           /\ receipt' = [receipt EXCEPT ![i] =
                 [type |-> "receipt", status |-> IF mined.success THEN 1 ELSE 0]]
    /\ pending' = [pending EXCEPT ![i] = <<>>]
    /\ UNCHANGED <<unconfirmed, invoked, frameVars, execCalls, errorLog, queries, result>>

\* All of s but its k-th element.
Without(s, k) == SubSeq(s, 1, k - 1) \o SubSeq(s, k + 1, Len(s))

\* A transaction that no invocation awaits is mined, in any order.
MineUnconfirmed ==
    \E k \in DOMAIN unconfirmed, status \in {0, 1}, implementation \in Implementations :
        /\ Becomes(Executed(unconfirmed[k], status, implementation).after)
        /\ unconfirmed' = Without(unconfirmed, k)
        /\ UNCHANGED <<invoked, frameVars, effectVars>>

(***************************************************************************)
(* ConditionalTokenService.reportPayouts                                   *)
(***************************************************************************)
\* The questions whose payouts a caller reports.
ReportQuestionIds == {"loadedQuestion", "otherQuestion"}

\* conditionalTokensContract.reportPayouts(questionId, [1, 0])
encodeReportPayouts(questionId) == <<"reportPayouts", questionId, <<1, 0>>>>

\* ConditionalTokenService.reportPayouts: the signer sends the report, the
\* function awaits the sending.
ReportPayouts(i) ==
    /\ pc[i] = "idle"
    /\ \E questionId \in ReportQuestionIds :
        params' = [params EXCEPT ![i] = [questionId |-> questionId]]
    /\ op' = [op EXCEPT ![i] = "reportPayouts"]
    /\ pc' = [pc EXCEPT ![i] = "reportPayouts"]
    /\ invoked' = invoked + 1
    /\ UNCHANGED <<chainVars, locals, transactions, txOptions, effectVars>>

\* The chain takes the transaction; the function returns the transaction
\* object and does not wait for the transaction to be mined.
ReportPayoutsSent(i) ==
    /\ Resolved(i, "reportPayouts", "reportPayouts")
    /\ unconfirmed' = Append(unconfirmed,
          Transaction(User,
                      <<[to |-> ConditionalTokensAddress,
                         data |-> encodeReportPayouts(params[i].questionId)]>>,
                      marketCollateral))
    /\ result' = [result EXCEPT ![i] = Returned([type |-> "transaction"])]
    /\ pc' = [pc EXCEPT ![i] = "done"]
    /\ UNCHANGED <<contractVars, invoked, op, params, locals, transactions, txOptions,
                   execCalls, pending, receipt, errorLog, queries>>

(***************************************************************************)
(* Confirmation.                                                           *)
(***************************************************************************)
\* createMarket awaits provider.waitForTransaction inside its try block;
\* the other workflows return its promise without awaiting it.
AwaitsConfirmation(o) == o = "createMarket"

\* Mutation of WaitForTransactionResolved: the result is delivered without
\* waiting for the receipt.
WaitForTransactionResolved_Optimistic(i) ==
    /\ pc[i] = "waitForTransaction"
    /\ result' = [result EXCEPT ![i] =
          IF op[i] = "createMarket"
          THEN Returned(locals[i].predictedMarketMakerAddress)
          ELSE Returned(receipt[i])]
    /\ pc' = [pc EXCEPT ![i] = "done"]
    /\ UNCHANGED <<sharedVars, op, params, locals, transactions, txOptions,
                   execCalls, pending, receipt, errorLog, queries>>

\* provider.waitForTransaction resolves with the receipt of the mined batch.
WaitForTransactionResolved(i) ==
    /\ pc[i] = "waitForTransaction"
    /\ receipt[i] # NoReceipt
    /\ result' = [result EXCEPT ![i] =
          IF op[i] = "createMarket"
          THEN Returned(locals[i].predictedMarketMakerAddress)
          ELSE Returned(receipt[i])]
    /\ pc' = [pc EXCEPT ![i] = "done"]
    /\ UNCHANGED <<sharedVars, op, params, locals, transactions, txOptions,
                   execCalls, pending, receipt, errorLog, queries>>

\* Mutation of WaitForTransactionRejected: the batch is submitted again, once.
WaitForTransactionRejected_Resubmit(i) ==
    /\ pc[i] = "waitForTransaction"
    /\ IF Len(execCalls[i]) < 2
       THEN /\ execCalls' = [execCalls EXCEPT ![i] = Append(@, @[Len(@)])]
            /\ pc' = [pc EXCEPT ![i] = "execTransactions"]
            /\ UNCHANGED <<errorLog, result>>
       ELSE /\ \E err \in Reasons : Catch(i, err)
            /\ UNCHANGED execCalls
    /\ UNCHANGED <<sharedVars, op, params, locals, transactions, txOptions,
                   pending, receipt, queries>>

\* provider.waitForTransaction rejects, before or after the batch is mined,
\* whatever else the chain holds.
WaitForTransactionRejected(i) ==
    /\ pc[i] = "waitForTransaction"
    /\ \E err \in Reasons :
        IF AwaitsConfirmation(op[i])
        THEN Catch(i, err)
        ELSE /\ result' = [result EXCEPT ![i] = Thrown(err)]
             /\ pc' = [pc EXCEPT ![i] = "failed"]
             /\ UNCHANGED errorLog
    /\ UNCHANGED <<sharedVars, op, params, locals, transactions, txOptions,
                   execCalls, pending, receipt, queries>>

\* Positions at which the invocation awaits a promise inside its try block.
AwaitPositions ==
    {"getAddress", "getCollateralToken", "calcBuyAmount", "calcSellAmount",
     "hasEnoughAllowance", "isApprovedForAll", "getNetwork", "askQuestionConstant",
     "doesConditionExist", "predictMarketMakerAddress", "getConditionId",
     "execTransactions"}

\* Mutation of AwaitRejected: when a query rejects, the calls built so far
\* are submitted before the error is rethrown.
AwaitRejected_SubmitsBuilt(i) ==
    /\ pc[i] \in AwaitPositions
    /\ \E err \in Reasons : Catch(i, err)
    /\ execCalls' = [execCalls EXCEPT ![i] =
          IF pc[i] = "execTransactions" THEN @
          ELSE Append(@, [transactions |-> transactions[i], options |-> txOptions[i]])]
    /\ UNCHANGED <<sharedVars, op, params, locals, transactions, txOptions,
                   pending, receipt, queries>>

\* The awaited query, or the submission, rejects.
AwaitRejected(i) ==
    /\ pc[i] \in AwaitPositions
    /\ \E err \in Reasons : Catch(i, err)
    /\ UNCHANGED <<sharedVars, op, params, locals, transactions, txOptions,
                   execCalls, pending, receipt, queries>>

\* The caller has its result or its exception; the frame of the invocation
\* is gone and the service can be invoked again.  A batch that is not mined
\* yet stays with the chain.
Return(i) ==
    /\ pc[i] \in {"done", "failed"}
    /\ pc' = [pc EXCEPT ![i] = "idle"]
    /\ op' = [op EXCEPT ![i] = "none"]
    /\ params' = [params EXCEPT ![i] = NoParams]
    /\ locals' = [locals EXCEPT ![i] = NoLocals]
    /\ transactions' = [transactions EXCEPT ![i] = <<>>]
    /\ txOptions' = [txOptions EXCEPT ![i] = Undefined]
    /\ execCalls' = [execCalls EXCEPT ![i] = <<>>]
    /\ receipt' = [receipt EXCEPT ![i] = NoReceipt]
    /\ errorLog' = [errorLog EXCEPT ![i] = 0]
    /\ queries' = [queries EXCEPT ![i] = <<>>]
    /\ result' = [result EXCEPT ![i] = NoResult]
    /\ pending' = [pending EXCEPT ![i] = <<>>]
    /\ unconfirmed' = IF pending[i] = <<>> THEN unconfirmed
                      ELSE Append(unconfirmed, PendingTransaction(i))
    /\ UNCHANGED <<contractVars, invoked>>

(***************************************************************************)
(* The steps of the workflows.                                             *)
(***************************************************************************)
BuyContinue(i) ==
    \/ BuyGetAddress(i)
    \/ BuyGetCollateralToken(i)
    \/ BuyCalcBuyAmount(i)
    \/ BuyHasEnoughAllowance(i)

SellContinue(i) ==
    \/ SellGetAddress(i)
    \/ SellCalcSellAmount(i)
    \/ SellGetCollateralToken(i)
    \/ SellIsApprovedForAll(i)

CreateContinue(i) ==
    \/ CreateGetAddress(i)
    \/ CreateGetNetwork(i)
    \/ CreateAskQuestionConstant(i)
    \/ CreateDoesConditionExist(i)
    \/ CreatePredictMarketMakerAddress(i)

AddContinue(i) ==
    \/ AddGetAddress(i)
    \/ AddGetNetwork(i)
    \/ AddHasEnoughAllowance(i)

RedeemContinue(i) ==
    \/ RedeemGetAddress(i)
    \/ RedeemGetConditionId(i)

ProxyContinue(i) ==
    \/ ProxyIsProxyDeployed(i)
    \/ ProxyMasterCopy(i)
    \/ ProxyQueryRejected(i)

\* The steps every workflow ends with: submission, mining, confirmation,
\* failure and return.
Submission(i) ==
    \/ ExecTransactionsResolved(i)
    \/ Mine(i)
    \/ WaitForTransactionResolved(i)
    \/ WaitForTransactionRejected(i)
    \/ AwaitRejected(i)
    \/ Return(i)

\* A behaviour holds at most MaxCalls invocations, each made in whatever
\* state the earlier ones left the chain in, their batches mined or not.
Called(i, entry) == invoked < MaxCalls /\ entry

\* The chain before the first invocation: nothing is sent yet, no condition
\* is resolved, and the market takes Dai.
InitChain(allowances, approvals, prepared, proxies) ==
    /\ allowance \in allowances
    /\ approvedForAll \in approvals
    /\ conditions \in prepared
    /\ marketCollateral = Dai
    /\ proxy \in proxies
    /\ payouts = [c \in PayoutConditionIds |-> Unresolved]
    /\ unconfirmed = <<>>
    /\ InitInvocations

\* Nothing granted to the market; a proxy that runs the target.
NoAllowance == [t \in Tokens |-> 0]
CurrentProxy == Deployed(ToLowerCase(targetGnosisSafeImplementation))

(***************************************************************************)
(* Specifications: one workflow, with any parameters.                      *)
(***************************************************************************)
InitBuyOutcomes ==
    InitChain({f \in [Tokens -> {0, 1, MaxUint}] : f[Weth] = 0}, {FALSE}, {{}}, {CurrentProxy})
BuyStep(i) == Called(i, BuyOutcomes(i)) \/ BuyContinue(i) \/ Submission(i)
NextBuyOutcomes == (\E i \in Sequential : BuyStep(i)) \/ MineUnconfirmed
SpecBuyOutcomes == InitBuyOutcomes /\ [][NextBuyOutcomes]_vars

InitSellOutcomes == InitChain({NoAllowance}, BOOLEAN, {{}}, {CurrentProxy})
SellStep(i) == Called(i, SellOutcomes(i)) \/ SellContinue(i) \/ Submission(i)
NextSellOutcomes == (\E i \in Sequential : SellStep(i)) \/ MineUnconfirmed
SpecSellOutcomes == InitSellOutcomes /\ [][NextSellOutcomes]_vars

InitCreateMarket ==
    InitChain({NoAllowance}, {FALSE}, SUBSET {MarketConditionId}, {CurrentProxy})
CreateStep(i) == Called(i, CreateMarket(i)) \/ CreateContinue(i) \/ Submission(i)
NextCreateMarket == (\E i \in Sequential : CreateStep(i)) \/ MineUnconfirmed
SpecCreateMarket == InitCreateMarket /\ [][NextCreateMarket]_vars

InitAddFunding ==
    InitChain({f \in [Tokens -> {0, 1, MaxUint}] : f[Weth] \in {0, MaxUint}},
              {FALSE}, {{}}, {CurrentProxy})
AddStep(i) == Called(i, AddFunding(i)) \/ AddContinue(i) \/ Submission(i)
NextAddFunding == (\E i \in Sequential : AddStep(i)) \/ MineUnconfirmed
SpecAddFunding == InitAddFunding /\ [][NextAddFunding]_vars

\* Nothing granted, nothing approved and no condition prepared.
InitFresh == InitChain({NoAllowance}, {FALSE}, {{}}, {CurrentProxy})
RemoveStep(i) == Called(i, RemoveFunding(i)) \/ RemoveGetAddress(i) \/ Submission(i)
NextRemoveFunding == (\E i \in Sequential : RemoveStep(i)) \/ MineUnconfirmed
SpecRemoveFunding == InitFresh /\ [][NextRemoveFunding]_vars

RedeemStep(i) == Called(i, RedeemPositions(i)) \/ RedeemContinue(i) \/ Submission(i)
NextRedeemPositions == (\E i \in Sequential : RedeemStep(i)) \/ MineUnconfirmed
SpecRedeemPositions == InitFresh /\ [][NextRedeemPositions]_vars

(***************************************************************************)
(* Specification: the workflows invoked one after the other, in any        *)
(* order: buyOutcomes, sellOutcomes and addFunding with any parameters,    *)
(* createMarket, removeFunding and redeemPositions with a sample of them.  *)
(***************************************************************************)
\* Markets of two outcomes, funded with one unit or with the most.
SampleMarketDatas ==
    {m \in MarketDatas : m.funding \in {1, MaxAmount} /\ m.outcomes = DefaultOutcomeSlotCount}

\* One share burnt for Dai; the amounts add up to a uint256 or do not fit.
SampleRemoveFundingParams ==
    {p \in RemoveFundingParams :
        /\ p.sharesToBurn = 1 /\ p.collateralAddress = Dai
        /\ p.amountToMerge \in {1, MaxAmount} /\ p.earnings \in {1, MaxAmount}}

\* Positions redeemed for Dai.
SampleRedeemParams == {p \in RedeemParams : p.collateralToken = Token(Dai)}

Entry(i) ==
    \/ BuyOutcomes(i)
    \/ SellOutcomes(i)
    \/ CreateMarket(i) /\ params'[i].marketData \in SampleMarketDatas
    \/ AddFunding(i)
    \/ RemoveFunding(i) /\ params'[i] \in SampleRemoveFundingParams
    \/ RedeemPositions(i) /\ params'[i] \in SampleRedeemParams
    \/ UpgradeProxyImplementation(i)
    \/ ProxyIsUpToDate(i)

Continue(i) ==
    \/ BuyContinue(i)
    \/ SellContinue(i)
    \/ CreateContinue(i)
    \/ AddContinue(i)
    \/ RemoveGetAddress(i)
    \/ RedeemContinue(i)
    \/ ProxyContinue(i)
    \/ Submission(i)

Step(i) == Called(i, Entry(i)) \/ Continue(i)

Next == (\E i \in Sequential : Step(i)) \/ MineUnconfirmed

Init == InitFresh

Spec == Init /\ [][Next]_vars

(***************************************************************************)
(* Specification: the same workflows, on a proxy in any of its states.     *)
(***************************************************************************)
InitProxy ==
    InitChain({NoAllowance}, {FALSE}, {{}},
              {NotDeployed} \cup {Deployed(m) : m \in Implementations})

SpecProxy == InitProxy /\ [][Next]_vars

(***************************************************************************)
(* Specification: two invocations of buyOutcomes or addFunding in flight,  *)
(* their steps interleaved in any order.                                   *)
(***************************************************************************)
\* The proxy has granted the market one unit of Dai, two, or any amount.
InitConcurrent ==
    InitChain({f \in [Tokens -> {0, 1, 2, MaxUint}] : f[Dai] # 0 /\ f[Weth] = 0}, {FALSE},
              {{MarketConditionId}}, {CurrentProxy})

\* The callers buy or fund one or two units of Dai: an allowance covers
\* both batches, one of them, or the smaller amount only.
ConcurrentBuyParams == {p \in BuyParams : p.amount \in {1, 2}}
ConcurrentAddFundingParams ==
    {p \in AddFundingParams : p.amount \in {1, 2} /\ p.collateral = Token(Dai)}

ConcurrentBuyOutcomes(i) ==
    \E p \in ConcurrentBuyParams : Invoke(i, "buyOutcomes", p, "getAddress")

ConcurrentAddFunding(i) ==
    \E p \in ConcurrentAddFundingParams : Invoke(i, "addFunding", p, "getAddress")

ConcurrentEntry(i) == ConcurrentBuyOutcomes(i) \/ ConcurrentAddFunding(i)

ConcurrentStep(i) ==
    Called(i, ConcurrentEntry(i)) \/ BuyContinue(i) \/ AddContinue(i) \/ Submission(i)

NextConcurrent == (\E i \in Invs : ConcurrentStep(i)) \/ MineUnconfirmed

SpecConcurrent == InitConcurrent /\ [][NextConcurrent]_vars

(***************************************************************************)
(* Specification: the payouts, on any payouts: their queries, and the      *)
(* report that resolves a condition.                                       *)
(***************************************************************************)
InitPayouts ==
    /\ allowance = NoAllowance
    /\ approvedForAll = FALSE
    /\ conditions = {MarketConditionId}
    /\ marketCollateral = Dai
    /\ proxy = CurrentProxy
    /\ payouts \in [PayoutConditionIds -> Payouts]
    /\ unconfirmed = <<>>
    /\ InitInvocations

PayoutEntry(i) == GetWinnerOutcome(i) \/ IsConditionResolved(i) \/ ReportPayouts(i)

PayoutStep(i) ==
    \/ Called(i, PayoutEntry(i))
    \/ GetWinnerPayoutNumerators(i)
    \/ IsConditionResolvedPayoutDenominator(i)
    \/ ReportPayoutsSent(i)
    \/ PayoutQueryRejected(i)
    \/ Return(i)

NextPayouts == (\E i \in Sequential : PayoutStep(i)) \/ MineUnconfirmed

SpecPayouts == InitPayouts /\ [][NextPayouts]_vars

(***************************************************************************)
(* Properties of the submitted batches.                                    *)
(***************************************************************************)
\* Invocation i of workflow o has called cpk.execTransactions.
SubmittedBy(i, o) == op[i] = o /\ execCalls[i] # <<>>

\* The batch it handed over, and the options it passed.
Batch(i) == execCalls[i][1].transactions
Options(i) == execCalls[i][1].options

KindOf(tx) == IF HasValue(tx) THEN "wrap" ELSE tx.data[1]
Positions(batch, kind) == {j \in DOMAIN batch : KindOf(batch[j]) = kind}
Has(batch, kind) == Positions(batch, kind) # {}

\* C1: buyOutcomes submits exactly [transferFrom(user, proxy, amount),
\* buy(amount, outcomeIndex, minOut)] when the queried allowance of the proxy
\* to the market covers the amount, and exactly [approveUnlimited(market),
\* transferFrom, buy] when it does not.
C1_BuyBatch ==
    \A i \in Invs : SubmittedBy(i, "buyOutcomes") =>
        LET amount == params[i].amount
            approve == [to |-> marketCollateral,
                        data |-> <<"approve", MarketMakerAddress, MaxUint>>]
            transfer == [to |-> marketCollateral,
                         data |-> <<"transferFrom", User, CpkAddress, amount>>]
            buy == [to |-> MarketMakerAddress,
                    data |-> <<"buy", amount, params[i].outcomeIndex,
                               locals[i].outcomeTokensToBuy>>]
        IN IF locals[i].queriedAllowance >= amount
           THEN Batch(i) = <<transfer, buy>>
           ELSE Batch(i) = <<approve, transfer, buy>>

C1_Witness ==
    \E i \in Invs :
        /\ SubmittedBy(i, "buyOutcomes")
        /\ locals[i].queriedAllowance < params[i].amount
        /\ Len(Batch(i)) = 3
        /\ pc[i] = "done"

\* C2: redeemPositions called with an earnedCollateral of amount zero submits
\* a batch without the transfer to the user: its last call is the redeem
\* call, whether the condition is resolved or not.
C2_ZeroEarnedNoTransfer ==
    \A i \in Invs :
        (SubmittedBy(i, "redeemPositions") /\ params[i].earnedCollateral = BN(0)) =>
            /\ ~Has(Batch(i), "transfer")
            /\ KindOf(Batch(i)[Len(Batch(i))]) = "redeemPositions"

\* C3: redeemPositions submits a resolve-condition call exactly when
\* isConditionResolved is false, and then as the first call; the redeem call
\* is always there, once, before any transfer to the user.
C3_RedeemResolveFirst ==
    \A i \in Invs : SubmittedBy(i, "redeemPositions") =>
        LET b == Batch(i)
        IN /\ Has(b, "resolveCondition") <=> ~params[i].isConditionResolved
           /\ Positions(b, "resolveCondition") \subseteq {1}
           /\ Cardinality(Positions(b, "redeemPositions")) = 1
           /\ \A r \in Positions(b, "redeemPositions") :
                 \A t \in Positions(b, "transfer") : r < t

C3_Witness ==
    \E i \in Invs :
        /\ SubmittedBy(i, "redeemPositions")
        /\ ~params[i].isConditionResolved
        /\ KindOf(Batch(i)[1]) = "resolveCondition"
        /\ Has(Batch(i), "transfer")

\* C4: createMarket funded with the native asset submits the wrap call
\* first, carrying the funding as value, and no transferFrom; funded with a
\* token it submits no call carrying a value and exactly one
\* transferFrom(user, proxy, funding).
C4_CreateMarketWrapOrTransfer ==
    \A i \in Invs : SubmittedBy(i, "createMarket") =>
        LET b == Batch(i)
            marketData == params[i].marketData
        IN IF marketData.collateral.address = pseudoEthAddress
           THEN /\ HasValue(b[1])
                /\ b[1].to = Weth
                /\ b[1].value = marketData.funding
                /\ ~Has(b, "transferFrom")
           ELSE /\ \A j \in DOMAIN b : ~HasValue(b[j])
                /\ Cardinality(Positions(b, "transferFrom")) = 1
                /\ \A j \in Positions(b, "transferFrom") :
                      b[j].data = <<"transferFrom", User, CpkAddress, marketData.funding>>

C4_Witness ==
    \E i \in Invs :
        /\ SubmittedBy(i, "createMarket")
        /\ params[i].marketData.collateral.address = pseudoEthAddress
        /\ params[i].marketData.funding > 0
        /\ HasValue(Batch(i)[1])

\* C5: createMarket without a loaded question id never queries the existence
\* of the condition and submits both the ask-question and the
\* prepare-condition call; with a loaded question id it queries the
\* existence and submits prepare-condition exactly when the condition was
\* reported not to exist.
C5_PrepareCondition ==
    \A i \in Invs : SubmittedBy(i, "createMarket") =>
        LET b == Batch(i)
            asked == \E j \in DOMAIN queries[i] : queries[i][j] = "doesConditionExist"
        IN IF params[i].marketData.loadedQuestionId = Null
           THEN ~asked /\ Has(b, "askQuestion") /\ Has(b, "prepareCondition")
           ELSE asked /\ (Has(b, "prepareCondition") <=> ~locals[i].conditionExists)

C5_Witness ==
    \E i \in Invs :
        /\ SubmittedBy(i, "createMarket")
        /\ params[i].marketData.loadedQuestionId # Null
        /\ ~locals[i].conditionExists
        /\ Has(Batch(i), "prepareCondition")

\* C6: createMarket with a loaded question id whose condition already exists
\* submits neither an ask-question nor a prepare-condition call; funded with
\* a token, its batch is exactly [approve, transfer funding, create market
\* maker].
C6_ExistingCondition ==
    \A i \in Invs :
        (/\ SubmittedBy(i, "createMarket")
         /\ params[i].marketData.loadedQuestionId # Null
         /\ locals[i].conditionExists) =>
            LET b == Batch(i)
                marketData == params[i].marketData
            IN /\ ~Has(b, "askQuestion")
               /\ ~Has(b, "prepareCondition")
               /\ marketData.collateral.address # pseudoEthAddress =>
                    /\ Len(b) = 3
                    /\ b[1] = [to |-> marketData.collateral.address,
                               data |-> <<"approve", FactoryAddress, MaxUint>>]
                    /\ b[2] = [to |-> marketData.collateral.address,
                               data |-> <<"transferFrom", User, CpkAddress,
                                          marketData.funding>>]
                    /\ b[3].to = FactoryAddress
                    /\ KindOf(b[3]) = "createMarketMaker"

C6_Witness ==
    \E i \in Invs :
        /\ SubmittedBy(i, "createMarket")
        /\ params[i].marketData.loadedQuestionId # Null
        /\ locals[i].conditionExists
        /\ params[i].marketData.collateral.address # pseudoEthAddress
        /\ Len(Batch(i)) = 3

\* C7: every batch of createMarket holds exactly one approve-unlimited call,
\* on the effective collateral and with the market maker factory as spender,
\* and createMarket never queries an allowance.
C7_ApproveFactoryAlways ==
    \A i \in Invs : SubmittedBy(i, "createMarket") =>
        LET b == Batch(i)
            given == params[i].marketData.collateral.address
            effective == IF given = pseudoEthAddress THEN Weth ELSE given
        IN /\ Cardinality(Positions(b, "approve")) = 1
           /\ \A j \in Positions(b, "approve") :
                 b[j] = [to |-> effective,
                         data |-> <<"approve", FactoryAddress, MaxUint>>]
           /\ \A j \in DOMAIN queries[i] : queries[i][j] # "hasEnoughAllowance"

C7_Witness ==
    \E i \in Invs :
        /\ SubmittedBy(i, "createMarket")
        /\ params[i].marketData.collateral.address = pseudoEthAddress
        /\ Has(Batch(i), "approve")
        /\ pc[i] = "done"

\* C8: removeFunding always submits exactly 3 calls: remove funding of
\* sharesToBurn on the market, merge positions of amountToMerge on the
\* conditional tokens, transfer of amountToMerge + earnings to the user on
\* the collateral.
C8_RemoveFundingBatch ==
    \A i \in Invs : SubmittedBy(i, "removeFunding") =>
        LET b == Batch(i)
            p == params[i]
        IN /\ Len(b) = 3
           /\ b[1] = [to |-> MarketMakerAddress,
                      data |-> <<"removeFunding", p.sharesToBurn>>]
           /\ b[2].to = ConditionalTokensAddress
           /\ KindOf(b[2]) = "mergePositions"
           /\ b[2].data[5] = p.amountToMerge
           /\ b[3] = [to |-> p.collateralAddress,
                      data |-> <<"transfer", User, p.amountToMerge + p.earnings>>]

C8_Witness ==
    \E i \in Invs :
        /\ SubmittedBy(i, "removeFunding")
        /\ params[i].earnings > 0
        /\ params[i].amountToMerge > 0
        /\ Len(Batch(i)) = 3

\* C9: sellOutcomes submits a set-approval-for-all(market, true) call exactly
\* when isApprovedForAll(proxy, market) was reported false, and then first;
\* its batch ends with [sell, transfer of the proceeds to the user], so it
\* has 2 or 3 calls.
C9_SellBatch ==
    \A i \in Invs : SubmittedBy(i, "sellOutcomes") =>
        LET b == Batch(i)
            n == Len(b)
        IN /\ Has(b, "setApprovalForAll") <=> ~locals[i].isAlreadyApprovedForMarketMaker
           /\ \A j \in Positions(b, "setApprovalForAll") :
                 /\ j = 1
                 /\ b[j] = [to |-> ConditionalTokensAddress,
                            data |-> <<"setApprovalForAll", MarketMakerAddress, TRUE>>]
           /\ n \in {2, 3}
           /\ KindOf(b[n - 1]) = "sell"
           /\ b[n - 1].to = MarketMakerAddress
           /\ b[n] = [to |-> marketCollateral,
                      data |-> <<"transfer", User, params[i].amount>>]

C9_Witness ==
    \E i \in Invs :
        /\ SubmittedBy(i, "sellOutcomes")
        /\ ~locals[i].isAlreadyApprovedForMarketMaker
        /\ Len(Batch(i)) = 3

\* C10: addFunding submits the subsequence of [wrap(value = amount),
\* approveUnlimited(market), transferFrom(user, proxy, amount),
\* addFunding(amount)] with the wrap iff the collateral is native, the
\* approve iff the queried allowance on the effective collateral does not
\* cover the amount, the transferFrom iff the collateral is not native, and
\* addFunding always, last.
C10_AddFundingBatch ==
    \A i \in Invs : SubmittedBy(i, "addFunding") =>
        LET amount == params[i].amount
            given == params[i].collateral.address
            native == given = pseudoEthAddress
            effective == IF native THEN Weth ELSE given
            wrap == [to |-> effective, value |-> amount]
            approve == [to |-> effective,
                        data |-> <<"approve", MarketMakerAddress, MaxUint>>]
            transfer == [to |-> effective,
                         data |-> <<"transferFrom", User, CpkAddress, amount>>]
            add == [to |-> MarketMakerAddress, data |-> <<"addFunding", amount>>]
        IN Batch(i) =
              (IF native THEN <<wrap>> ELSE <<>>)
              \o (IF locals[i].queriedAllowance < amount THEN <<approve>> ELSE <<>>)
              \o (IF ~native THEN <<transfer>> ELSE <<>>)
              \o <<add>>

C10_Witness ==
    \E i \in Invs :
        /\ SubmittedBy(i, "addFunding")
        /\ params[i].collateral.address = pseudoEthAddress
        /\ locals[i].queriedAllowance < params[i].amount
        /\ Len(Batch(i)) = 3

(***************************************************************************)
(* Properties of submission, failure and confirmation.                     *)
(***************************************************************************)
\* The seven workflows of CPKService that submit a batch.
Workflows ==
    {"buyOutcomes", "sellOutcomes", "createMarket", "addFunding", "removeFunding",
     "redeemPositions", "upgradeProxyImplementation"}

\* The positions at which a workflow awaits a query.
QueryPositions == AwaitPositions \ {"execTransactions"}

\* C11: one invocation of a workflow calls cpk.execTransactions at most
\* once, exactly once when it completes successfully, and not again after a
\* submission or a confirmation failed.
C11_SubmitsAtMostOnce ==
    \A i \in Invs :
        op[i] \in Workflows =>
            /\ Len(execCalls[i]) <= 1
            /\ pc[i] = "done" => Len(execCalls[i]) = 1

\* A workflow failed after it had submitted its batch.
C11_Witness ==
    \E i \in Invs :
        /\ op[i] \in Workflows
        /\ pc[i] = "failed"
        /\ Len(execCalls[i]) = 1

\* Invocation i takes a step in which a query it awaited rejects.
QueryFails(i) == pc[i] \in QueryPositions /\ pc'[i] = "failed"

\* Invocation i takes the step of removeFunding that encodes its calls, with
\* an amount the encoder rejects.
EncodingFails(i) ==
    /\ op[i] = "removeFunding" /\ pc[i] = "getAddress" /\ pc'[i] # pc[i]
    /\ ~FitsUint(BigNumberAdd(params[i].amountToMerge, params[i].earnings))

\* C12: when a query or an encoding step of a workflow fails, the invocation
\* has not called cpk.execTransactions and does not call it: nothing is
\* submitted, no prefix of the batch either.
C12_FailureBeforeSubmission ==
    [][\A i \in Invs :
          (op[i] \in Workflows /\ (QueryFails(i) \/ EncodingFails(i)))
              => execCalls[i] = <<>> /\ execCalls'[i] = <<>> /\ pending'[i] = <<>>]_vars

\* A workflow failed at a query after it had built calls, and submitted none.
C12_Witness ==
    \E i \in Invs :
        /\ op[i] \in Workflows
        /\ pc[i] = "failed"
        /\ queries[i] # <<>>
        /\ transactions[i] # <<>>
        /\ execCalls[i] = <<>>

\* C13: every failure of a workflow, the failure of the wait for the
\* confirmation included, is logged by logger.error and rethrown to the
\* caller.
C13_FailureLoggedAndRethrown ==
    \A i \in Invs :
        (op[i] \in Workflows /\ pc[i] = "failed") =>
            errorLog[i] >= 1 /\ result[i].type = "thrown"

\* C14: a workflow returns a result only after it submitted its batch and the
\* wait for the receipt of that batch resolved; createMarket then returns
\* the predicted address of the market maker.
C14_ResultAfterConfirmation ==
    \A i \in Invs :
        (op[i] \in Workflows /\ result[i].type = "returned") =>
            /\ Len(execCalls[i]) = 1
            /\ pending[i] = <<>>
            /\ receipt[i] # NoReceipt
            /\ op[i] = "createMarket" =>
                  result[i].value = locals[i].predictedMarketMakerAddress

\* createMarket returned the predicted address.
C14_Witness ==
    \E i \in Invs :
        /\ op[i] = "createMarket"
        /\ result[i].type = "returned"
        /\ receipt[i] # NoReceipt

\* C15: a workflow whose batch was mined and reverted does not return a
\* result to its caller.
C15_RevertedBatchFails ==
    \A i \in Invs :
        (op[i] \in Workflows /\ receipt[i] # NoReceipt /\ receipt[i].status = 0) =>
            result[i].type # "returned"

\* C16: createMarket without a resolution time fails before it issues a
\* query, builds a call or submits a batch.
C16_NoResolutionFailsFirst ==
    \A i \in Invs :
        (op[i] = "createMarket" /\ ~Truthy(params[i].marketData.resolution)) =>
            /\ pc[i] = "failed"
            /\ result[i] = Thrown("Error")
            /\ errorLog[i] = 1
            /\ queries[i] = <<>>
            /\ transactions[i] = <<>>
            /\ execCalls[i] = <<>>
            /\ pending[i] = <<>>

\* createMarket was invoked without a resolution time.
C16_Witness ==
    \E i \in Invs :
        /\ op[i] = "createMarket"
        /\ params[i].marketData.resolution = Null
        /\ pc[i] = "failed"

(***************************************************************************)
(* Properties of the proxy and of its implementation.                      *)
(***************************************************************************)
\* Two texts of the same address: they differ in the case of letters only.
SameAddress(a, b) ==
    /\ DOMAIN a = DOMAIN b
    /\ \A k \in DOMAIN a :
          a[k] = b[k] \/ {a[k], b[k]} \in {{"a", "A"}, {"b", "B"}}

\* The proxy is deployed and runs the target implementation.
UpToDate == proxy.deployed /\ SameAddress(proxy.masterCopy, targetGnosisSafeImplementation)

\* C17: proxyIsUpToDate returns true exactly when the proxy, as it is when
\* the last query is answered, is deployed and its masterCopy is the target
\* implementation, whatever the letter case of the text the query returned;
\* on an undeployed proxy it returns false without reading masterCopy.
C17_ProxyIsUpToDate ==
    [][\A i \in Invs :
          (op[i] = "proxyIsUpToDate" /\ pc[i] # "done" /\ pc'[i] = "done") =>
              /\ result'[i] = Returned(UpToDate)
              /\ ~proxy.deployed => queries'[i] = <<"isProxyDeployed">>]_vars

\* proxyIsUpToDate returned true for a masterCopy whose text differs from
\* the text of the target in letter case.
C17_Witness ==
    \E i \in Invs :
        /\ op[i] = "proxyIsUpToDate"
        /\ pc[i] = "done"
        /\ result[i] = Returned(TRUE)
        /\ locals[i].implementation # targetGnosisSafeImplementation

\* The six workflows that carry out an intent of the user.
IntentWorkflows == Workflows \ {"upgradeProxyImplementation"}

\* Invocation i submitted a batch that holds a changeMasterCopy call.
SubmitsChangeMasterCopy(i) ==
    \E j \in DOMAIN execCalls[i] : Has(execCalls[i][j].transactions, "changeMasterCopy")

\* The proxy runs another implementation than the target and, after the
\* step, the target.
BecomesCurrent ==
    /\ proxy.deployed /\ ~UpToDate
    /\ proxy' = Deployed(ToLowerCase(targetGnosisSafeImplementation))

\* C18: the implementation of the proxy goes from stale to current only when
\* the batch of an upgradeProxyImplementation is mined, and that batch is
\* exactly one call, changeMasterCopy(target) to the proxy itself; no intent
\* workflow submits a changeMasterCopy call or issues the queries of
\* proxyIsUpToDate.
C18_UpgradeOnly ==
    /\ [](\A i \in Invs :
            /\ SubmittedBy(i, "upgradeProxyImplementation") =>
                  Batch(i) = <<[to |-> CpkAddress,
                                data |-> <<"changeMasterCopy",
                                           targetGnosisSafeImplementation>>]>>
            /\ op[i] \in IntentWorkflows =>
                  /\ ~SubmitsChangeMasterCopy(i)
                  /\ \A j \in DOMAIN queries[i] :
                        queries[i][j] \notin {"isProxyDeployed", "masterCopy"})
    /\ [][BecomesCurrent =>
            \/ \E i \in Invs :
                  /\ op[i] = "upgradeProxyImplementation"
                  /\ pending[i] # <<>>
                  /\ receipt'[i] # NoReceipt
            \/ \E k \in DOMAIN unconfirmed :
                  /\ Has(unconfirmed[k].calls, "changeMasterCopy")
                  /\ Len(unconfirmed[k].calls) = 1
                  /\ unconfirmed' = Without(unconfirmed, k)]_vars

\* The batch of an upgrade was mined with success, and the proxy runs the
\* target implementation.
C18_Witness ==
    \E i \in Invs :
        /\ op[i] = "upgradeProxyImplementation"
        /\ receipt[i] = [type |-> "receipt", status |-> 1]
        /\ UpToDate

(***************************************************************************)
(* Properties of the payout queries.                                       *)
(***************************************************************************)
\* C19: getWinnerOutcome reports a condition that is not resolved (payout
\* denominator zero, payout numerators zero) as unresolved, not as one of
\* the outcomes.
C19_UnresolvedReported ==
    \A i \in Invs :
        (/\ op[i] = "getWinnerOutcome"
         /\ pc[i] = "done"
         /\ payouts[params[i].conditionId] = Unresolved) =>
            result[i].value \notin {"Yes", "No"}

(***************************************************************************)
(* Idempotence of the query-and-build phase.                               *)
(***************************************************************************)
\* The kinds of the calls of a batch, in order.
Kinds(batch) == [j \in DOMAIN batch |-> KindOf(batch[j])]

Opt(included, kind) == IF included THEN <<kind>> ELSE <<>>

\* The kinds that workflow o, given parameters p, has to submit on the chain
\* state as it is.
Decisions(o, p) ==
    CASE o = "buyOutcomes" ->
            Opt(allowance[marketCollateral] < p.amount, "approve")
            \o <<"transferFrom", "buy">>
      [] o = "sellOutcomes" ->
            Opt(~approvedForAll, "setApprovalForAll") \o <<"sell", "transfer">>
      [] o = "createMarket" ->
            LET marketData == p.marketData
                native == marketData.collateral.address = pseudoEthAddress
                loaded == marketData.loadedQuestionId
            IN Opt(native, "wrap")
               \o (IF loaded = Null THEN <<"askQuestion", "prepareCondition">>
                   ELSE Opt(getConditionId(loaded.value, OracleAddress, marketData.outcomes)
                                \notin conditions, "prepareCondition"))
               \o <<"approve">>
               \o Opt(~native, "transferFrom")
               \o <<"createMarketMaker">>
      [] o = "addFunding" ->
            LET native == p.collateral.address = pseudoEthAddress
                effective == IF native THEN Weth ELSE p.collateral.address
            IN Opt(native, "wrap")
               \o Opt(allowance[effective] < p.amount, "approve")
               \o Opt(~native, "transferFrom")
               \o <<"addFunding">>
      [] o = "removeFunding" -> <<"removeFunding", "mergePositions", "transfer">>
      [] o = "redeemPositions" ->
            Opt(~p.isConditionResolved, "resolveCondition")
            \o <<"redeemPositions">>
            \o Opt(p.earnedCollateral # Null, "transfer")
      [] o = "upgradeProxyImplementation" -> <<"changeMasterCopy">>

\* Invocation i takes the step that brings it to position p.
Reaches(i, p) == pc[i] # p /\ pc'[i] = p

\* C20: the kinds of the calls a workflow builds, and their order, are a
\* function of its parameters and of the chain state its queries read, so
\* that building twice on the same inputs and the same chain decides the
\* same: createMarket decides when its question and condition are known
\* and adds the createMarketMaker call after the prediction, the other
\* workflows decide in the step that submits.  No step of the
\* query-and-build phase changes the chain state, and nothing of an
\* invocation is left in the service when it has returned.
C20_Idempotence ==
    /\ [](\A i \in Invs :
            pc[i] = "idle" =>
                /\ locals[i] = NoLocals /\ transactions[i] = <<>>
                /\ txOptions[i] = Undefined /\ execCalls[i] = <<>>)
    /\ [][\A i \in Invs :
            /\ (Reaches(i, "execTransactions") /\ op'[i] \in Workflows \ {"createMarket"}) =>
                  Kinds(execCalls'[i][1].transactions) = Decisions(op'[i], params'[i])
            /\ (Reaches(i, "predictMarketMakerAddress") /\ op[i] = "createMarket") =>
                  Kinds(transactions'[i]) \o <<"createMarketMaker">>
                      = Decisions(op[i], params[i])
            /\ (Reaches(i, "execTransactions") /\ op[i] = "createMarket") =>
                  Kinds(execCalls'[i][1].transactions)
                      = Kinds(transactions[i]) \o <<"createMarketMaker">>
            /\ (op[i] \in Workflows /\ pc[i] \in QueryPositions /\ pc'[i] # pc[i]) =>
                  UNCHANGED chainVars]_vars

\* createMarket built a batch whose prepare-condition call was decided by
\* the query of the chain.
C20_Witness ==
    \E i \in Invs :
        /\ op[i] = "createMarket"
        /\ pc[i] = "execTransactions"
        /\ params[i].marketData.loadedQuestionId # Null
        /\ Has(Batch(i), "prepareCondition")
        /\ Len(queries[i]) >= 4

(***************************************************************************)
(* Properties of the batch of createMarket.                                *)
(***************************************************************************)
\* The steps of createMarket, in the order of the code.
CreateMarketOrder ==
    <<"wrap", "askQuestion", "prepareCondition", "approve", "transferFrom",
      "createMarketMaker">>

Rank(kind) == CHOOSE r \in DOMAIN CreateMarketOrder : CreateMarketOrder[r] = kind

\* C21: the calls of a batch of createMarket are steps of
\* [wrap, askQuestion, prepareCondition, approve, transferFrom,
\* createMarketMaker], each at most once and in that order, and the
\* createMarketMaker call is there and is the last one.
C21_CreateMarketOrder ==
    \A i \in Invs : SubmittedBy(i, "createMarket") =>
        LET b == Batch(i)
        IN /\ \A j \in DOMAIN b :
                 \E r \in DOMAIN CreateMarketOrder : CreateMarketOrder[r] = KindOf(b[j])
           /\ \A j, k \in DOMAIN b : j < k => Rank(KindOf(b[j])) < Rank(KindOf(b[k]))
           /\ KindOf(b[Len(b)]) = "createMarketMaker"

\* A batch with the wrap, the question, the condition, the approval and
\* the market maker.
C21_Witness ==
    \E i \in Invs :
        /\ SubmittedBy(i, "createMarket")
        /\ Kinds(Batch(i)) =
              <<"wrap", "askQuestion", "prepareCondition", "approve", "createMarketMaker">>

\* C22: createMarket funded with native ether approves WETH, and predicts
\* the address and creates the market maker with the address of WETH; no call
\* is sent to the pseudo address of ether.  Funded with a token, it uses the
\* address of that token in all of them, and in the transferFrom.
C22_EffectiveCollateral ==
    \A i \in Invs : SubmittedBy(i, "createMarket") =>
        LET b == Batch(i)
            given == params[i].marketData.collateral.address
            effective == IF given = pseudoEthAddress THEN Weth ELSE given
        IN /\ \A j \in Positions(b, "approve") \cup Positions(b, "transferFrom")
                     \cup Positions(b, "wrap") : b[j].to = effective
           /\ \A j \in Positions(b, "createMarketMaker") : b[j].data[4] = effective
           /\ locals[i].predictedMarketMakerAddress[4] = effective
           /\ \A j \in DOMAIN b : b[j].to # pseudoEthAddress

\* createMarket funded with native ether was confirmed.
C22_Witness ==
    \E i \in Invs :
        /\ SubmittedBy(i, "createMarket")
        /\ params[i].marketData.collateral.address = pseudoEthAddress
        /\ locals[i].predictedMarketMakerAddress[4] = Weth
        /\ pc[i] = "done"

\* C23: createMarket derives one condition id from the question id (the
\* loaded one, or the one realitio will give), the oracle address and the
\* number of outcomes; the existence query, which answers for the chain as
\* it is when it resolves, the predicted address and the createMarketMaker
\* call use that id, and the prepareCondition call is encoded with that
\* question id, oracle address and number of outcomes.
C23_OneConditionId ==
    /\ [](\A i \in Invs : SubmittedBy(i, "createMarket") =>
            LET b == Batch(i)
                marketData == params[i].marketData
                loaded == marketData.loadedQuestionId
                questionId == locals[i].questionId
                conditionId == getConditionId(questionId, OracleAddress, marketData.outcomes)
            IN /\ loaded # Null => questionId = loaded.value
               /\ locals[i].conditionId = conditionId
               /\ locals[i].predictedMarketMakerAddress[5] = conditionId
               /\ \A j \in Positions(b, "createMarketMaker") : b[j].data[5] = conditionId
               /\ \A j \in Positions(b, "prepareCondition") :
                     b[j].data = <<"prepareCondition", questionId, OracleAddress,
                                   marketData.outcomes>>)
    /\ [][\A i \in Invs :
            (pc[i] = "doesConditionExist" /\ pc'[i] = "predictMarketMakerAddress") =>
                LET marketData == params[i].marketData
                    conditionId == getConditionId(marketData.loadedQuestionId.value,
                                                  OracleAddress, marketData.outcomes)
                IN /\ locals'[i].conditionId = conditionId
                   /\ locals'[i].conditionExists <=> conditionId \in conditions]_vars

\* createMarket asked a new question and prepared its condition.
C23_Witness ==
    \E i \in Invs :
        /\ SubmittedBy(i, "createMarket")
        /\ params[i].marketData.loadedQuestionId = Null
        /\ Has(Batch(i), "prepareCondition")
        /\ locals[i].conditionId # MarketConditionId

(***************************************************************************)
(* Properties of the value sent with a batch.                              *)
(***************************************************************************)
RECURSIVE SumOfValues(_)
SumOfValues(batch) ==
    IF batch = <<>> THEN 0
    ELSE (IF HasValue(Head(batch)) THEN Head(batch).value ELSE 0) + SumOfValues(Tail(batch))

\* The parameters fund the workflow with native ether.
FundedWithEther(o, p) ==
    \/ o = "createMarket" /\ p.marketData.collateral.address = pseudoEthAddress
    \/ o = "addFunding" /\ p.collateral.address = pseudoEthAddress

Funding(o, p) == IF o = "createMarket" THEN p.marketData.funding ELSE p.amount

\* C24: the value passed in the options of the submission is the sum of the
\* values of the calls of the batch: the funding, carried by one wrap call,
\* when createMarket or addFunding is funded with native ether; otherwise
\* the options hold no value and no call carries one.
C24_ValueOfBatch ==
    \A i \in Invs : (op[i] \in Workflows /\ execCalls[i] # <<>>) =>
        LET b == Batch(i)
        IN IF FundedWithEther(op[i], params[i])
           THEN /\ HasValue(Options(i))
                /\ Options(i).value = Funding(op[i], params[i])
                /\ Options(i).value = SumOfValues(b)
                /\ Cardinality(Positions(b, "wrap")) = 1
           ELSE /\ ~HasValue(Options(i))
                /\ \A j \in DOMAIN b : ~HasValue(b[j])

\* addFunding sent a positive amount of native ether.
C24_Witness ==
    \E i \in Invs :
        /\ SubmittedBy(i, "addFunding")
        /\ params[i].collateral.address = pseudoEthAddress
        /\ Options(i).value > 0
        /\ SumOfValues(Batch(i)) = Options(i).value

(***************************************************************************)
(* Properties of invocations in flight at the same time.                   *)
(***************************************************************************)
\* The workflows that pay the market maker out of the allowance of the proxy.
PayingWorkflows == {"buyOutcomes", "addFunding"}

\* The batch of invocation i, which holds no approve call, is mined in this
\* step.
MinedWithoutApprove(i) ==
    /\ op[i] \in PayingWorkflows
    /\ pending[i] # <<>>
    /\ receipt'[i] # NoReceipt
    /\ ~Has(pending[i], "approve")

\* The allowance of the proxy to the market maker on the collateral of
\* invocation i.
AllowanceOf(i) == allowance[locals[i].collateralAddress]

\* C25 as stated: with two buyOutcomes or addFunding in flight, a batch
\* without approve call is mined with an allowance of the proxy to the market
\* maker of at least its amount.
C25_DecisionValidAtExecution ==
    [][\A i \in Invs : MinedWithoutApprove(i) => AllowanceOf(i) >= params[i].amount]_vars

\* C25, amended: a batch without approve call is mined with an allowance of
\* at least its amount whenever the allowance is then not below the one its
\* invocation queried, be it unchanged or raised by the approve call of
\* another batch; it is mined with less than its amount only when another
\* batch has used up allowance since the query.
C25_DecisionValidUnlessConsumed ==
    [][\A i \in Invs : MinedWithoutApprove(i) =>
          /\ locals[i].queriedAllowance >= params[i].amount
          /\ AllowanceOf(i) >= locals[i].queriedAllowance =>
                AllowanceOf(i) >= params[i].amount
          /\ AllowanceOf(i) < params[i].amount =>
                AllowanceOf(i) < locals[i].queriedAllowance]_vars

\* Two invocations queried the same allowance, enough for either amount,
\* and submitted a batch without approve call: one batch was executed and
\* left less than the amount of the other, which was mined and reverted.
C25_Witness ==
    \E i, j \in Invs :
        /\ i # j
        /\ \A k \in {i, j} :
              /\ op[k] \in PayingWorkflows
              /\ execCalls[k] # <<>>
              /\ ~Has(Batch(k), "approve")
              /\ receipt[k] # NoReceipt
        /\ locals[i].queriedAllowance = locals[j].queriedAllowance
        /\ receipt[i].status = 1
        /\ receipt[j].status = 0
        /\ allowance[Dai] < params[j].amount

\* The call tx is one that invocation i builds from its parameters and from
\* the results of its queries.
OwnCall(i, tx) ==
    LET amount == params[i].amount
        token == locals[i].collateralAddress
    IN CASE KindOf(tx) = "wrap" ->
              op[i] = "addFunding" /\ tx = [to |-> token, value |-> amount]
         [] KindOf(tx) = "approve" ->
              tx = [to |-> token, data |-> <<"approve", MarketMakerAddress, MaxUint>>]
         [] KindOf(tx) = "transferFrom" ->
              tx = [to |-> token, data |-> <<"transferFrom", User, CpkAddress, amount>>]
         [] KindOf(tx) = "buy" ->
              /\ op[i] = "buyOutcomes"
              /\ tx = [to |-> MarketMakerAddress,
                       data |-> <<"buy", amount, params[i].outcomeIndex,
                                  locals[i].outcomeTokensToBuy>>]
         [] KindOf(tx) = "addFunding" ->
              /\ op[i] = "addFunding"
              /\ tx = [to |-> MarketMakerAddress, data |-> <<"addFunding", amount>>]
         [] OTHER -> FALSE

\* C26: under any interleaving of two invocations, the array of an
\* invocation is empty when it starts, the batch it submits holds only calls
\* it built from its own parameters and query results, each once, and the
\* batch handed to execTransactions is the one the proxy holds and is not
\* changed afterwards.
C26_OwnFreshBatch ==
    /\ [](\A i \in Invs : (op[i] \in PayingWorkflows /\ execCalls[i] # <<>>) =>
            LET b == Batch(i)
            IN /\ \A j \in DOMAIN b : OwnCall(i, b[j])
               /\ \A j, k \in DOMAIN b : KindOf(b[j]) = KindOf(b[k]) => j = k
               /\ transactions[i] = b
               /\ pending[i] \in {<<>>, b})
    /\ [][\A i \in Invs :
            /\ (pc[i] = "idle" /\ pc'[i] # "idle") =>
                  transactions'[i] = <<>> /\ execCalls'[i] = <<>>
            /\ execCalls[i] # <<>> =>
                  execCalls'[i] = execCalls[i] \/ pc'[i] = "idle"]_vars

\* A buyOutcomes and an addFunding have both submitted their batch, and
\* neither batch is mined.
C26_Witness ==
    \E i, j \in Invs :
        /\ SubmittedBy(i, "buyOutcomes")
        /\ SubmittedBy(j, "addFunding")
        /\ pending[i] = Batch(i)
        /\ pending[j] = Batch(j)

====
